---- MODULE Spec2Model ----
(***************************************************************************)
(* Verification model of krisvanrens/coding-exercises:                     *)
(*   cpp-fundamentals-exercises/raycasting/raycasting_v13.cpp              *)
(*   (LevelMap, Player, the ray marcher and the frame loop of main).       *)
(*                                                                         *)
(* The program computes in IEEE-754 binary32 ("float").  A float is kept   *)
(* here as a record [m, e] that stands for the real number m * 2^e, with   *)
(* either m = 0 or 2^23 <= |m| < 2^24, and every arithmetic operator       *)
(* rounds to nearest, ties to even, as the hardware does.  Infinities,     *)
(* NaNs, subnormals and the sign of zero do not occur in the value ranges  *)
(* of this program and are not represented.                                *)
(***************************************************************************)
EXTENDS Integers, Sequences, FiniteSets, TLC

\* ------------------------------------------------------------------------
\* binary32 arithmetic
\* ------------------------------------------------------------------------

\* Number of significand bits of a float (FLT_MANT_DIG).
MantBits == 24

\* The powers of two 2^0 .. 2^30.
Pow2Table ==
  << 1, 2, 4, 8, 16, 32, 64, 128, 256, 512, 1024, 2048, 4096, 8192, 16384,
     32768, 65536, 131072, 262144, 524288, 1048576, 2097152, 4194304,
     8388608, 16777216, 33554432, 67108864, 134217728, 268435456,
     536870912, 1073741824 >>

Pow2(n) == Pow2Table[n + 1]

RECURSIVE BitLen(_)
BitLen(n) == IF n = 0 THEN 0 ELSE 1 + BitLen(n \div 2)

Abs(n) == IF n < 0 THEN 0 - n ELSE n

FZero == [m |-> 0, e |-> 0]

Pack(neg, mag, exp) == [m |-> IF neg THEN 0 - mag ELSE mag, e |-> exp]

\* Round the real number (+/-) sig * 2^exp to the nearest float, ties to even.
\* sig may carry up to 30 bits; bits that were shifted out below sig have
\* been or-ed into its least significant bit by the caller.
RoundPack(neg, sig, exp) ==
  IF sig = 0 THEN FZero
  ELSE LET n == BitLen(sig) IN
       IF n <= MantBits
       THEN Pack(neg, sig * Pow2(MantBits - n), exp - (MantBits - n))
       ELSE LET sh   == n - MantBits
                q    == sig \div Pow2(sh)
                r    == sig % Pow2(sh)
                half == Pow2(sh - 1)
                up   == r > half \/ (r = half /\ q % 2 = 1)
                q1   == IF up THEN q + 1 ELSE q
            IN IF q1 = Pow2(MantBits)
               THEN Pack(neg, Pow2(MantBits - 1), exp + sh + 1)
               ELSE Pack(neg, q1, exp + sh)

\* The float nearest to the integer n (static_cast<float>(n)).
IntToF(n) == RoundPack(n < 0, Abs(n), 0)

\* The NaN that 0.0f / 0.0f yields; it is the only non-number that occurs.
FNaN == [m |-> 0, e |-> 9999]

IsNaN(a) == a.e = 9999

FNeg(a) == [m |-> 0 - a.m, e |-> a.e]

\* a + b in float: the smaller operand is aligned with three extra bits
\* (guard, round, sticky) before the sum is rounded.
FAdd(a, b) ==
  IF IsNaN(a) \/ IsNaN(b) THEN FNaN
  ELSE IF a.m = 0 THEN b
  ELSE IF b.m = 0 THEN a
  ELSE LET hi  == IF a.e >= b.e THEN a ELSE b
           lo  == IF a.e >= b.e THEN b ELSE a
           d   == hi.e - lo.e
           lom == Abs(lo.m) * 8
           v   == IF d > MantBits + 3 THEN 0 ELSE lom \div Pow2(d)
           st  == IF d > MantBits + 3 THEN TRUE ELSE lom % Pow2(d) # 0
           los == IF st /\ v % 2 = 0 THEN v + 1 ELSE v
           s   == hi.m * 8 + (IF lo.m < 0 THEN 0 - los ELSE los)
       IN RoundPack(s < 0, Abs(s), hi.e - 3)

FSub(a, b) == FAdd(a, FNeg(b))

\* a * b in float: the 48-bit product of the significands is formed from
\* 12-bit halves, then rounded.
FMul(a, b) ==
  IF IsNaN(a) \/ IsNaN(b) THEN FNaN
  ELSE IF a.m = 0 \/ b.m = 0 THEN FZero
  ELSE LET H    == Pow2(MantBits \div 2)
           am   == Abs(a.m)
           bm   == Abs(b.m)
           a1   == am \div H
           a0   == am % H
           b1   == bm \div H
           b0   == bm % H
           low  == a0 * b0
           mid  == a1 * b0 + a0 * b1 + (low \div H)
           top  == a1 * b1 + (mid \div H)
           rest == (mid % H) * H + (low % H)
           Q    == Pow2(MantBits - 2)
           g    == rest \div Q
           st   == rest % Q # 0
           sig  == top * 8 + g * 2 + (IF st THEN 1 ELSE 0)
       IN RoundPack((a.m < 0) # (b.m < 0), sig, a.e + b.e + MantBits - 3)

\* a < b on floats; FALSE when either is NaN.
FLt(a, b) == ~IsNaN(a) /\ ~IsNaN(b) /\ FSub(a, b).m < 0

\* One step of binary long division: the quotient bits of rem / den.
RECURSIVE DivBits(_, _, _, _)
DivBits(rem, den, k, q) ==
  IF k = 0 THEN <<q, rem>>
  ELSE IF 2 * rem >= den
       THEN DivBits(2 * rem - den, den, k - 1, 2 * q + 1)
       ELSE DivBits(2 * rem, den, k - 1, 2 * q)

\* a / b in float.  0 / 0 is NaN; x / 0 for x # 0 (an infinity) does not
\* occur in this program.
FDiv(a, b) ==
  IF IsNaN(a) \/ IsNaN(b) \/ b.m = 0 THEN FNaN
  ELSE IF a.m = 0 THEN FZero
  ELSE LET am == Abs(a.m)
           bm == Abs(b.m)
           r  == DivBits(am % bm, bm, MantBits + 2, am \div bm)
           sg == 2 * r[1] + (IF r[2] # 0 THEN 1 ELSE 0)
       IN RoundPack((a.m < 0) # (b.m < 0), sg, a.e - b.e - (MantBits + 3))

\* Digit-by-digit square root of n * 4^k: n is consumed two bits at a time
\* from bit pair i down to bit pair 0, then k pairs of zeros.
RECURSIVE SqrtBits(_, _, _, _, _)
SqrtBits(n, i, k, root, rem) ==
  IF i < 0 - k THEN <<root, rem>>
  ELSE LET pair == IF i >= 0 THEN (n \div Pow2(2 * i)) % 4 ELSE 0
           r2   == 4 * rem + pair
           t    == 4 * root + 1
       IN IF r2 >= t
          THEN SqrtBits(n, i - 1, k, 2 * root + 1, r2 - t)
          ELSE SqrtBits(n, i - 1, k, 2 * root, r2)

\* std::sqrt(a) for a >= 0, correctly rounded.
FSqrt(a) ==
  IF IsNaN(a) \/ a.m < 0 THEN FNaN
  ELSE IF a.m = 0 THEN FZero
  ELSE LET odd == a.e % 2 # 0
           n   == IF odd THEN 2 * a.m ELSE a.m
           ex  == IF odd THEN a.e - 1 ELSE a.e
           k   == MantBits \div 2 + 2
           r   == SqrtBits(n, MantBits \div 2, k, 0, 0)
           sg  == 2 * r[1] + (IF r[2] # 0 THEN 1 ELSE 0)
       IN RoundPack(FALSE, sg, (ex \div 2) - k - 1)

\* static_cast<int>(std::round(a)): nearest integer, halves away from zero.
FRound(a) ==
  IF a.e >= 0 THEN a.m * Pow2(a.e)
  ELSE LET sh  == 0 - a.e
           mag == Abs(a.m)
           q   == IF sh > MantBits THEN 0 ELSE (mag + Pow2(sh - 1)) \div Pow2(sh)
       IN IF a.m < 0 THEN 0 - q ELSE q

\* static_cast<int>(a): the integer part of a, towards zero.
FTrunc(a) ==
  IF a.e >= 0 THEN a.m * Pow2(a.e)
  ELSE LET sh == 0 - a.e
           fl == IF sh > MantBits THEN 0 ELSE Abs(a.m) \div Pow2(sh)
       IN IF a.m < 0 THEN 0 - fl ELSE fl

\* std::fmod(a, b) for b > 0: exact, keeps the sign of a.
RECURSIVE FMod(_, _)
FMod(a, b) ==
  IF a.m < 0 THEN FNeg(FMod(FNeg(a), b))
  ELSE IF FLt(a, b) THEN a
  ELSE FMod(FSub(a, b), b)

\* ------------------------------------------------------------------------
\* LevelMap
\* ------------------------------------------------------------------------

NL == "\n"

\* std::string::npos.  static_cast<unsigned int>(npos) is UINT_MAX (2^32 - 1);
\* the same token stands for it, as it only ever meets itself below.
npos == 0 - 1

\* format.find_first_of(c): 0-based index of the first c, or npos.
find_first_of(s, c) ==
  IF \E i \in 1..Len(s) : s[i] = c
  THEN (CHOOSE i \in 1..Len(s) : s[i] = c /\ \A j \in 1..(i - 1) : s[j] # c) - 1
  ELSE npos

\* format.find_last_of(c): 0-based index of the last c, or npos.
find_last_of(s, c) ==
  IF \E i \in 1..Len(s) : s[i] = c
  THEN (CHOOSE i \in 1..Len(s) : s[i] = c /\ \A j \in (i + 1)..Len(s) : s[j] # c) - 1
  ELSE npos

\* a / b on unsigned int, b # 0.  UINT_MAX / UINT_MAX = 1; a position in the
\* string is below UINT_MAX.
UDiv(a, b) ==
  IF b = npos THEN (IF a = npos THEN 1 ELSE 0) ELSE a \div b

\* v < 3 on unsigned int.
ULess3(v) == v # npos /\ v < 3

\* The state before a LevelMap has been constructed.
NoMap == [outcome |-> "none", format |-> <<>>, width |-> 0, height |-> 0]

Thrown(what, fmt) == [outcome |-> what, format |-> fmt, width |-> 0, height |-> 0]

\* LevelMap::LevelMap(format): the set of outcomes of the constructor.  The
\* member initialiser of height divides by width before any check; for
\* width = 0 that is undefined behaviour: the division traps (SIGFPE) on
\* x86, and yields 0 on targets whose divide instruction does not trap, in
\* which case the dimension check throws.
LevelMap(fmt) ==
  LET w    == find_first_of(fmt, NL)
      last == find_last_of(fmt, NL)
  IN IF w = 0
     THEN {Thrown("SIGFPE", fmt), Thrown("invalid_argument", fmt)}
     ELSE LET h == UDiv(last, w) IN
          IF ULess3(w) \/ ULess3(h)
          THEN {Thrown("invalid_argument", fmt)}
          ELSE IF (w + 1) * h # Len(fmt)
          THEN {Thrown("invalid_argument", fmt)}
          ELSE {[outcome |-> "ok", format |-> fmt, width |-> w, height |-> h]}

\* LevelMap::is_oob(x, y).
is_oob(M, x, y) == x < 0 \/ y < 0 \/ x >= M.width \/ y >= M.height

\* format.at(i) throws std::out_of_range for an index outside the string.
at_throws(s, i) == i < 0 \/ i >= Len(s)

\* format.at(i), 0-based.
at(s, i) == s[i + 1]

\* Index of cell (x, y) in the format string.
cell_index(M, x, y) == (M.width + 1) * y + x

\* LevelMap::is_wall(x, y).  (When format.at throws, the call does not
\* return; is_wall_throws tells.)
is_wall(M, x, y) ==
  ~is_oob(M, x, y) /\ ~at_throws(M.format, cell_index(M, x, y))
                   /\ at(M.format, cell_index(M, x, y)) = "#"

is_wall_throws(M, x, y) ==
  ~is_oob(M, x, y) /\ at_throws(M.format, cell_index(M, x, y))

\* The level of main().
MAP_FORMAT ==
  << "#", "#", "#", "#", "#", "#", "#", "#", "#", "#", "#", "#", "#", "#", "#", "#", "#", "#", "#", "#", NL,
     "#", " ", " ", " ", "#", "#", " ", " ", " ", " ", " ", " ", " ", " ", " ", " ", " ", " ", " ", "#", NL,
     "#", " ", " ", " ", "#", "#", " ", " ", " ", " ", " ", " ", " ", " ", " ", " ", " ", " ", " ", "#", NL,
     "#", " ", " ", " ", " ", " ", " ", " ", " ", " ", " ", " ", " ", " ", " ", " ", " ", " ", " ", "#", NL,
     "#", " ", " ", " ", " ", " ", " ", " ", " ", " ", "#", "#", "#", "#", "#", "#", "#", "#", "#", "#", NL,
     "#", " ", " ", " ", " ", " ", " ", " ", " ", " ", " ", " ", " ", " ", " ", " ", " ", " ", " ", "#", NL,
     "#", "#", "#", "#", "#", "#", " ", " ", " ", " ", " ", " ", " ", " ", " ", " ", " ", " ", " ", "#", NL,
     "#", " ", " ", " ", " ", "#", " ", " ", " ", " ", " ", " ", "#", "#", "#", " ", " ", " ", " ", "#", NL,
     "#", " ", " ", " ", " ", "#", " ", " ", " ", " ", " ", " ", "#", "#", "#", " ", " ", " ", " ", "#", NL,
     "#", " ", " ", " ", " ", " ", " ", " ", " ", " ", " ", " ", " ", " ", " ", " ", " ", " ", " ", "#", NL,
     "#", " ", " ", " ", " ", " ", " ", " ", " ", " ", " ", " ", " ", " ", " ", " ", " ", " ", " ", "#", NL,
     "#", "#", "#", "#", "#", "#", "#", "#", "#", "#", "#", "#", "#", "#", "#", "#", "#", "#", "#", "#", NL >>

MAP == CHOOSE M \in LevelMap(MAP_FORMAT) : TRUE

\* ------------------------------------------------------------------------
\* Constants of the program (as floats)
\* ------------------------------------------------------------------------

\* std::numbers::pi_v<float> = 3.14159274
PI == [m |-> 13176795, e |-> 0 - 22]

PI2 == FMul(PI, IntToF(2))

\* PI / 3.0f
FOV == FDiv(PI, IntToF(3))

MAX_DEPTH == IntToF(15)

\* 0.05f, half of the step.
TWENTIETH == [m |-> 13421773, e |-> 0 - 28]

\* The literal 0.1f: step of a move, of a turn and of the ray march.
TENTH == [m |-> 13421773, e |-> 0 - 27]

\* std::sin and std::cos on float (glibc sinf, cosf), tabulated for the
\* angles that occur: <<m, e>> of the angle, of its sine and of its cosine.
SinCosTable ==
  { <<-8784530, -24, -8388608, -24, 14529495, -24>>,
    <<0, 0, 0, 0, 8388608, -23>>,
    <<8388608, -44, 8388608, -44, 8388608, -23>>,
    <<9025024, -29, 9024599, -29, 16774846, -24>>,
    <<9025280, -29, 9024855, -29, 16774845, -24>>,
    <<9025536, -29, 9025111, -29, 16774845, -24>>,
    <<13421120, -27, 13398765, -27, 16693408, -24>>,
    <<13421696, -27, 13399338, -27, 16693401, -24>>,
    <<13421760, -27, 13399402, -27, 16693400, -24>>,
    <<13421773, -27, 13399415, -27, 16693400, -24>>,
    <<13421824, -27, 13399465, -27, 16693399, -24>>,
    <<15678029, -27, 15642400, -27, 16662886, -24>>,
    <<15678080, -27, 15642450, -27, 16662886, -24>>,
    <<15678093, -27, 15642463, -27, 16662885, -24>>,
    <<15678144, -27, 15642514, -27, 16662885, -24>>,
    <<15678157, -27, 15642527, -27, 16662884, -24>>,
    <<13421734, -26, 13332435, -26, 16442791, -24>>,
    <<13421760, -26, 13332461, -26, 16442789, -24>>,
    <<13421766, -26, 13332466, -26, 16442789, -24>>,
    <<13421773, -26, 13332473, -26, 16442789, -24>>,
    <<13421792, -26, 13332492, -26, 16442788, -24>>,
    <<13421798, -26, 13332498, -26, 16442787, -24>>,
    <<14549920, -26, 14436197, -26, 16384436, -24>>,
    <<14549926, -26, 14436202, -26, 16384436, -24>>,
    <<14549933, -26, 14436209, -26, 16384435, -24>>,
    <<14549952, -26, 14436228, -26, 16384434, -24>>,
    <<14549958, -26, 14436234, -26, 16384434, -24>>,
    <<14549965, -26, 14436241, -26, 16384434, -24>>,
    <<10066320, -25, 9916004, -25, 16027888, -24>>,
    <<10066323, -25, 9916006, -25, 16027888, -24>>,
    <<10066326, -25, 9916009, -25, 16027887, -24>>,
    <<10066330, -25, 9916013, -25, 16027887, -24>>,
    <<10066336, -25, 9916019, -25, 16027886, -24>>,
    <<10066339, -25, 9916022, -25, 16027885, -24>>,
    <<10630400, -25, 10453463, -25, 15942279, -24>>,
    <<10630403, -25, 10453466, -25, 15942278, -24>>,
    <<10630406, -25, 10453469, -25, 15942278, -24>>,
    <<10630410, -25, 10453473, -25, 15942277, -24>>,
    <<10630416, -25, 10453478, -25, 15942276, -24>>,
    <<10630419, -25, 10453481, -25, 15942276, -24>>,
    <<10630422, -25, 10453484, -25, 15942275, -24>>,
    <<10630426, -25, 10453488, -25, 15942275, -24>>,
    <<10630432, -25, 10453494, -25, 15942274, -24>>,
    <<13421760, -25, 13066700, -25, 15452842, -24>>,
    <<13421763, -25, 13066702, -25, 15452841, -24>>,
    <<13421766, -25, 13066705, -25, 15452841, -24>>,
    <<13421769, -25, 13066708, -25, 15452840, -24>>,
    <<13421773, -25, 13066711, -25, 15452839, -24>>,
    <<13421776, -25, 13066714, -25, 15452839, -24>>,
    <<13421779, -25, 13066717, -25, 15452838, -24>>,
    <<13421782, -25, 13066720, -25, 15452837, -24>>,
    <<13985846, -25, 13584386, -25, 15340831, -24>>,
    <<13985849, -25, 13584389, -25, 15340830, -24>>,
    <<13985853, -25, 13584393, -25, 15340829, -24>>,
    <<13985856, -25, 13584396, -25, 15340829, -24>>,
    <<13985859, -25, 13584398, -25, 15340828, -24>>,
    <<13985869, -25, 13584407, -25, 15340826, -24>>,
    <<16777209, -25, 16086845, -25, 14723394, -24>>,
    <<16777212, -25, 16086848, -25, 14723393, -24>>,
    <<8388608, -24, 16086852, -25, 14723392, -24>>,
    <<8388610, -24, 16086855, -25, 14723391, -24>>,
    <<8388611, -24, 16086857, -25, 14723391, -24>>,
    <<8670645, -24, 16579577, -25, 14586102, -24>>,
    <<8670646, -24, 16579578, -25, 14586102, -24>>,
    <<8670648, -24, 16579582, -25, 14586101, -24>>,
    <<8670650, -24, 16579585, -25, 14586100, -24>>,
    <<8670651, -24, 16579587, -25, 14586099, -24>>,
    <<8670656, -24, 16579596, -25, 14586097, -24>>,
    <<8784530, -24, 8388608, -24, 14529495, -24>>,
    <<10066326, -24, 9473126, -24, 13846836, -24>>,
    <<10066328, -24, 9473127, -24, 13846835, -24>>,
    <<10066330, -24, 9473129, -24, 13846834, -24>>,
    <<10066332, -24, 9473131, -24, 13846833, -24>>,
    <<10066333, -24, 9473132, -24, 13846832, -24>>,
    <<10348370, -24, 9704557, -24, 13685633, -24>>,
    <<11744052, -24, 10808180, -24, 12831922, -24>>,
    <<12026092, -24, 11022359, -24, 12648422, -24>>,
    <<13176795, -24, 11863283, -24, 11863283, -24>>,
    <<13421774, -24, 12035239, -24, 11688798, -24>>,
    <<13176795, -23, 8388608, -23, -12303662, -48>>,
    <<13176795, -22, -12303662, -47, -8388608, -23>>,
    <<9882596, -21, -8388608, -23, 13426222, -50>>,
    <<10031053, -21, -16735197, -24, 9493316, -27>>,
    <<10240769, -21, -16533120, -24, 11405897, -26>>,
    <<10450484, -21, -16165852, -24, 8975570, -25>>,
    <<10450485, -21, -16165850, -24, 8975586, -25>>,
    <<10660200, -21, -15637057, -24, 12158526, -25>>,
    <<10660201, -21, -15637054, -24, 12158541, -25>>,
    <<10869915, -21, -14952023, -24, 15219983, -25>>,
    <<10869916, -21, -14952020, -24, 15219997, -25>>,
    <<10869917, -21, -14952016, -24, 15220011, -25>>,
    <<11079631, -21, -14117591, -24, 9064690, -24>>,
    <<11079632, -21, -14117586, -24, 9064697, -24>>,
    <<11079633, -21, -14117582, -24, 9064704, -24>>,
    <<11289345, -21, -13142109, -24, 10428804, -24>>,
    <<11289346, -21, -13142104, -24, 10428811, -24>>,
    <<11289347, -21, -13142099, -24, 10428817, -24>>,
    <<11289348, -21, -13142094, -24, 10428823, -24>>,
    <<11289349, -21, -13142089, -24, 10428829, -24>>,
    <<11324609, -21, -12964897, -24, 10648307, -24>>,
    <<11499061, -21, -12035305, -24, 11688730, -24>>,
    <<11499062, -21, -12035300, -24, 11688736, -24>>,
    <<11499063, -21, -12035294, -24, 11688741, -24>>,
    <<11499064, -21, -12035288, -24, 11688747, -24>>,
    <<11499065, -21, -12035283, -24, 11688753, -24>>,
    <<11499069, -21, -12035261, -24, 11688776, -24>>,
    <<11534325, -21, -11837065, -24, 11889444, -24>>,
    <<11708776, -21, -10808254, -24, 12831860, -24>>,
    <<11708777, -21, -10808248, -24, 12831865, -24>>,
    <<11708778, -21, -10808242, -24, 12831870, -24>>,
    <<11708779, -21, -10808236, -24, 12831875, -24>>,
    <<11708780, -21, -10808230, -24, 12831880, -24>>,
    <<11708781, -21, -10808224, -24, 12831885, -24>>,
    <<11708785, -21, -10808199, -24, 12831906, -24>>,
    <<11744040, -21, -10590966, -24, 13011780, -24>>,
    <<11744041, -21, -10590960, -24, 13011785, -24>>,
    <<11918492, -21, -9473204, -24, 13846782, -24>>,
    <<11918493, -21, -9473198, -24, 13846787, -24>>,
    <<11918494, -21, -9473191, -24, 13846791, -24>>,
    <<11918495, -21, -9473184, -24, 13846796, -24>>,
    <<11918496, -21, -9473178, -24, 13846800, -24>>,
    <<11918497, -21, -9473171, -24, 13846805, -24>>,
    <<11918500, -21, -9473151, -24, 13846818, -24>>,
    <<11918501, -21, -9473145, -24, 13846823, -24>>,
    <<11953756, -21, -9239040, -24, 14004111, -24>>,
    <<11953757, -21, -9239033, -24, 14004115, -24>>,
    <<12128207, -21, -16087015, -25, 14723348, -24>>,
    <<12128208, -21, -16087001, -25, 14723351, -24>>,
    <<12128209, -21, -16086987, -25, 14723355, -24>>,
    <<12128210, -21, -16086973, -25, 14723359, -24>>,
    <<12128211, -21, -16086959, -25, 14723363, -24>>,
    <<12128212, -21, -16086945, -25, 14723367, -24>>,
    <<12128213, -21, -16086931, -25, 14723371, -24>>,
    <<12128216, -21, -16086889, -25, 14723382, -24>>,
    <<12128217, -21, -16086875, -25, 14723386, -24>>,
    <<12163471, -21, -15589612, -25, 14856513, -24>>,
    <<12163472, -21, -15589598, -25, 14856517, -24>>,
    <<12163473, -21, -15589584, -25, 14856520, -24>>,
    <<12337923, -21, -13066871, -25, 15452805, -24>>,
    <<12337924, -21, -13066856, -25, 15452809, -24>>,
    <<12337925, -21, -13066841, -25, 15452812, -24>>,
    <<12337926, -21, -13066827, -25, 15452815, -24>>,
    <<12337927, -21, -13066812, -25, 15452818, -24>>,
    <<12337931, -21, -13066753, -25, 15452830, -24>>,
    <<12337932, -21, -13066738, -25, 15452834, -24>>,
    <<12337933, -21, -13066724, -25, 15452837, -24>>,
    <<12373187, -21, -12545365, -25, 15560477, -24>>,
    <<12373188, -21, -12545350, -25, 15560480, -24>>,
    <<12373189, -21, -12545335, -25, 15560483, -24>>,
    <<12547638, -21, -9916181, -25, 16027861, -24>>,
    <<12547639, -21, -9916166, -25, 16027863, -24>>,
    <<12547640, -21, -9916151, -25, 16027865, -24>>,
    <<12547641, -21, -9916136, -25, 16027868, -24>>,
    <<12547642, -21, -9916120, -25, 16027870, -24>>,
    <<12547647, -21, -9916044, -25, 16027882, -24>>,
    <<12547648, -21, -9916029, -25, 16027884, -24>>,
    <<12547649, -21, -9916013, -25, 16027887, -24>>,
    <<12582902, -21, -9375782, -25, 16108962, -24>>,
    <<12582903, -21, -9375767, -25, 16108964, -24>>,
    <<12582904, -21, -9375751, -25, 16108966, -24>>,
    <<12582905, -21, -9375736, -25, 16108969, -24>>,
    <<12757354, -21, -13332794, -26, 16442772, -24>>,
    <<12757355, -21, -13332763, -26, 16442774, -24>>,
    <<12757356, -21, -13332731, -26, 16442776, -24>>,
    <<12757362, -21, -13332543, -26, 16442785, -24>>,
    <<12757363, -21, -13332512, -26, 16442787, -24>>,
    <<12757364, -21, -13332480, -26, 16442788, -24>>,
    <<12757365, -21, -13332449, -26, 16442790, -24>>,
    <<12792618, -21, -12225008, -26, 16496494, -24>>,
    <<12792619, -21, -12224977, -26, 16496495, -24>>,
    <<12792620, -21, -12224945, -26, 16496496, -24>>,
    <<12792621, -21, -12224914, -26, 16496498, -24>>,
    <<12967069, -21, -13400079, -27, 16693391, -24>>,
    <<12967070, -21, -13400015, -27, 16693392, -24>>,
    <<12967071, -21, -13399951, -27, 16693393, -24>>,
    <<12967078, -21, -13399506, -27, 16693399, -24>>,
    <<12967079, -21, -13399442, -27, 16693399, -24>>,
    <<12967080, -21, -13399378, -27, 16693400, -24>>,
    <<13002333, -21, -11152670, -27, 16719196, -24>>,
    <<13002334, -21, -11152607, -27, 16719196, -24>>,
    <<13002335, -21, -11152543, -27, 16719197, -24>>,
    <<13002336, -21, -11152479, -27, 16719198, -24>>,
    <<13176785, -21, -10101271, -41, 8388608, -23>>,
    <<13176793, -21, -13701300, -44, 8388608, -23>>,
    <<13176794, -21, -10625385, -45, 8388608, -23>> }

SinCosRow(a) == CHOOSE t \in SinCosTable : t[1] = a.m /\ t[2] = a.e

sin(a) == LET t == SinCosRow(a) IN [m |-> t[3], e |-> t[4]]

cos(a) == LET t == SinCosRow(a) IN [m |-> t[5], e |-> t[6]]

\* std::acos(c) < 0.01f on float (glibc acosf): acosf falls from 0.0100002
\* at 0.99994999 to 0 at 1, and is NaN above 1 and for NaN.
acos_below_hundredth(c) ==
  ~IsNaN(c) /\ ~FLt(c, [m |-> 16776378, e |-> 0 - 24]) /\ ~FLt(IntToF(1), c)

\* ------------------------------------------------------------------------
\* Player
\* ------------------------------------------------------------------------

move_up(pl) ==
  [x     |-> FAdd(pl.x, FMul(TENTH, sin(pl.angle))),
   y     |-> FAdd(pl.y, FMul(TENTH, cos(pl.angle))),
   angle |-> pl.angle]

move_down(pl) ==
  [x     |-> FSub(pl.x, FMul(TENTH, sin(pl.angle))),
   y     |-> FSub(pl.y, FMul(TENTH, cos(pl.angle))),
   angle |-> pl.angle]

\* turn_ccw stopping at 0 instead of wrapping around.
turn_ccw_clamped(pl) ==
  [pl EXCEPT !.angle = IF FLt(FSub(pl.angle, TENTH), FZero) THEN FZero
                     ELSE FSub(pl.angle, TENTH)]

\* turn_ccw adding the step instead of subtracting it.
turn_ccw_clockwise(pl) ==
  [pl EXCEPT !.angle = FMod(FAdd(pl.angle, TENTH), PI2)]

turn_ccw(pl) ==
  [pl EXCEPT !.angle = FMod(FAdd(FSub(pl.angle, TENTH), PI2), PI2)]

\* turn_cw with the std::fmod left out, as in a version without wrap-around.
turn_cw_unwrapped(pl) ==
  [pl EXCEPT !.angle = FAdd(pl.angle, TENTH)]

turn_cw(pl) ==
  [pl EXCEPT !.angle = FMod(FAdd(pl.angle, TENTH), PI2)]

\* in_wall without std::round: the conversion to int alone.
in_wall_trunc(M, pl) == is_wall(M, FTrunc(pl.x), FTrunc(pl.y))

\* MAP.is_wall(static_cast<int>(std::round(p.x)), static_cast<int>(std::round(p.y)))
in_wall(M, pl) == is_wall(M, FRound(pl.x), FRound(pl.y))

\* case Up of the input switch.
key_up(M, pl) ==
  LET t == move_up(pl) IN IF in_wall(M, t) THEN move_down(t) ELSE t

\* case Down of the input switch.
key_down(M, pl) ==
  LET t == move_down(pl) IN IF in_wall(M, t) THEN move_up(t) ELSE t

\* ------------------------------------------------------------------------
\* State
\* ------------------------------------------------------------------------

VARIABLES
  map,   \* the LevelMap object (or the outcome of its constructor)
  p,     \* the Player: [x, y, angle]
  pc,    \* position of main(): "render", "input", "done"
  key,   \* the key that the last s.get_key() returned
  keys,  \* number of keys read so far
  q,     \* the last is_oob / is_wall query made on the map
  ray,   \* the ray being marched for one screen column
  start, \* the Player as main() constructed it
  calc   \* the calculator: main() of rpn-calculator_v17 with its input and output

vars == <<map, p, pc, key, keys, q, ray, start, calc>>

NoQuery == [x |-> 0, y |-> 0, oob |-> FALSE, wall |-> FALSE, thrown |-> FALSE, asked |-> FALSE]

NoRay == [state |-> "none"]

NoCalc == [state |-> "none"]

\* ------------------------------------------------------------------------
\* The frame loop of main()
\* ------------------------------------------------------------------------

\* Number of keys read in one run of the model.
MaxKeys == 6

Pose(x, y, a) == [x |-> x, y |-> y, angle |-> a]

\* Player p{7.0f, 1.0f, 0.0f}
InitialPose == Pose(IntToF(7), IntToF(1), FZero)

\* The pose after the key 'd' has been read 62 times: heading 6.1999965.
PoseTurned == Pose(IntToF(7), IntToF(1), [m |-> 13002335, e |-> 0 - 21])

\* The pose after the 124 keys
\*   wwwwswwdwsawswwwwwwwawwwwwwwwwawawwwswwswawdsawwwswwswwwdwswada
\*   wwwwwaawasawwwwssswwsdaawawwwwwaswdadsasdwwwdswdswwwadwwdwwad
\* have been read from the initial pose: x = 5.30406904, y = 5.49999952,
\* heading 5.58318138.
PoseAfterRun ==
  Pose([m |-> 11123439, e |-> 0 - 21], [m |-> 11534335, e |-> 0 - 21],
       [m |-> 11708780, e |-> 0 - 21])

\* A 3x3 level with walls all around one open cell.
MAP3_FORMAT ==
  << "#", "#", "#", NL,
     "#", " ", "#", NL,
     "#", "#", "#", NL >>

MAP3 == CHOOSE M \in LevelMap(MAP3_FORMAT) : TRUE

\* The player in the open cell of MAP3, facing the wall cell (1, 2).
PoseCentre == Pose(IntToF(1), IntToF(1), FZero)

\* Level and pose at the top of the while (true) loop.
Scenes ==
  { <<MAP, InitialPose>>, <<MAP, PoseTurned>>, <<MAP, PoseAfterRun>>,
    <<MAP3, PoseCentre>> }

Init ==
  /\ \E sc \in Scenes : map = sc[1] /\ p = sc[2]
  /\ pc = "render"
  /\ key = "none"
  /\ keys = 0
  /\ q = NoQuery
  /\ start = p
  /\ calc = NoCalc
  /\ ray = NoRay

\* The body of the loop up to s.update(): draws the frame, leaves the player.
Render ==
  /\ pc = "render"
  /\ pc' = "input"
  /\ UNCHANGED <<map, p, key, keys, q, ray, start, calc>>

\* s.get_key() returns k; limit bounds the number of keys of a run.
Read(k, limit) ==
  /\ pc = "input"
  /\ keys < limit
  /\ key' = k
  /\ keys' = keys + 1
  /\ UNCHANGED <<map, q, ray, start, calc>>

KeyUp    == Read("Up", MaxKeys)    /\ p' = key_up(map, p)   /\ pc' = "render"

KeyDown  == Read("Down", MaxKeys)  /\ p' = key_down(map, p) /\ pc' = "render"

KeyLeft  == Read("Left", MaxKeys)  /\ p' = turn_ccw(p)      /\ pc' = "render"

KeyRight == Read("Right", MaxKeys) /\ p' = turn_cw(p)       /\ pc' = "render"

\* case Other ending the loop.
KeyOtherEnds == Read("Other", MaxKeys) /\ p' = p /\ pc' = "done"

KeyOther == Read("Other", MaxKeys) /\ p' = p                /\ pc' = "render"

\* case Quit going on with the loop.
KeyQuitIgnored == Read("Quit", MaxKeys) /\ p' = p /\ pc' = "render"

KeyQuit  == Read("Quit", MaxKeys)  /\ p' = p                /\ pc' = "done"

Next ==
  \/ Render
  \/ KeyUp
  \/ KeyDown
  \/ KeyLeft
  \/ KeyRight
  \/ KeyOther
  \/ KeyQuit

Spec == Init /\ [][Next]_vars

\* ------------------------------------------------------------------------
\* The frame loop when only the keys 'a' and 'd' are pressed
\* ------------------------------------------------------------------------

\* Number of turn keys read in one run.
MaxTurns == 64

InitTurn ==
  /\ map = MAP
  /\ p = InitialPose
  /\ pc = "render"
  /\ key = "none"
  /\ keys = 0
  /\ q = NoQuery
  /\ start = p
  /\ calc = NoCalc
  /\ ray = NoRay

TurnLeft  == Read("Left", MaxTurns)  /\ p' = turn_ccw(p) /\ pc' = "render"

TurnRight == Read("Right", MaxTurns) /\ p' = turn_cw(p)  /\ pc' = "render"

NextTurn ==
  \/ Render
  \/ TurnLeft
  \/ TurnRight

SpecTurn == InitTurn /\ [][NextTurn]_vars

\* ------------------------------------------------------------------------
\* Construction of a LevelMap from a layout, and queries on it
\* ------------------------------------------------------------------------

\* Largest number of rows, and of cells in a row, of a layout.
MaxRows == 4

MaxRowLen == 7

\* A layout is given by the lengths of its rows, by what fills its cells
\* (walls only, or walls and floor in turn) and by whether its last row ends
\* with a newline.
RowLens(k) == [1..k -> 0..MaxRowLen]

Fills == {"walls", "mixed"}

Cell(fill, i) ==
  IF fill = "floor" THEN " "
  ELSE IF fill = "walls" \/ i % 2 = 1 THEN "#" ELSE " "

RECURSIVE LayoutOf(_, _, _, _)
LayoutOf(lens, fill, closed, done) ==
  IF lens = <<>> THEN done
  ELSE LET row == [i \in 1..Head(lens) |-> Cell(fill, Len(done) + i)]
           nl  == IF Len(lens) = 1 /\ ~closed THEN <<>> ELSE <<NL>>
       IN LayoutOf(Tail(lens), fill, closed, done \o row \o nl)

\* The layouts of k rows.
Layouts(k) ==
  { LayoutOf(l, f, c, <<>>) : l \in RowLens(k), f \in Fills, c \in BOOLEAN }

\* Coordinates asked of is_oob and is_wall.
Coords == (0 - 2)..(MaxRowLen + 2)

InitMap ==
  /\ map = NoMap
  /\ p = InitialPose
  /\ pc = "construct"
  /\ key = "none"
  /\ keys = 0
  /\ q = NoQuery
  /\ start = p
  /\ calc = NoCalc
  /\ ray = NoRay

\* const LevelMap MAP{layout}: the object, or the exception caught by main
\* (EXIT_FAILURE), or the trap.
Construct ==
  /\ pc = "construct"
  /\ \E k \in 0..MaxRows : \E l \in Layouts(k) : \E r \in LevelMap(l) :
       /\ map' = r
       /\ pc' = IF r.outcome = "ok" THEN "constructed" ELSE "failed"
  /\ UNCHANGED <<p, key, keys, q, ray, start, calc>>

\* MAP.is_oob(x, y) and MAP.is_wall(x, y); one call per run is recorded.
Query ==
  /\ pc = "constructed"
  /\ ~q.asked
  /\ \E x \in Coords, y \in Coords :
       q' = [x |-> x, y |-> y, oob |-> is_oob(map, x, y),
             wall |-> is_wall(map, x, y),
             thrown |-> is_wall_throws(map, x, y), asked |-> TRUE]
  /\ UNCHANGED <<map, p, pc, key, keys, ray, start, calc>>

NextMap ==
  \/ Construct
  \/ Query

SpecMap == InitMap /\ [][NextMap]_vars

\* ------------------------------------------------------------------------
\* The ray march of one screen column
\* ------------------------------------------------------------------------

\* ray_cell without std::round: the conversion to int alone.
ray_cell_trunc(o, n, dist) == FTrunc(FAdd(o, FMul(n, dist)))

\* static_cast<int>(std::round(o + n * dist)): the cell coordinate of the
\* sample at distance dist along a ray from o with direction component n.
ray_cell(o, n, dist) == FRound(FAdd(o, FMul(n, dist)))

\* hit with the walls alone ending the march.
ray_hit_wall_only(M, xx, yy, hit_wall) == hit_wall

\* hit = MAP.is_oob(xx, yy) || hit_wall
ray_hit(M, xx, yy, hit_wall) == is_oob(M, xx, yy) \/ hit_wall

\* One entry of the array corners: distance from the player to the point
\* (xx + tx, yy + ty) and dot product of the unit vector to it with the ray.
corner(r, xx, yy, tx, ty) ==
  LET vx == FSub(IntToF(xx + tx), r.px)
      vy == FSub(IntToF(yy + ty), r.py)
      d  == FSqrt(FAdd(FMul(vx, vx), FMul(vy, vy)))
  IN [d   |-> d,
      dot |-> FAdd(FDiv(FMul(r.nx, vx), d), FDiv(FMul(r.ny, vy), d))]

\* corners.at(ty * 2 + tx), as a sequence indexed from 1.
corners(r, xx, yy) ==
  << corner(r, xx, yy, 0, 0), corner(r, xx, yy, 1, 0),
     corner(r, xx, yy, 0, 1), corner(r, xx, yy, 1, 1) >>

\* std::ranges::sort by distance: the orders it may leave the four entries
\* in (entries of equal distance may end in either order).
sorted_orders(cs) ==
  { o \in [1..4 -> 1..4] :
      /\ \A i, j \in 1..4 : i # j => o[i] # o[j]
      /\ \A i \in 1..3 : ~FLt(cs[o[i + 1]].d, cs[o[i]].d) }

\* The values that bound may take for a sample in the wall cell (xx, yy).
bound_values(r, xx, yy) ==
  LET cs == corners(r, xx, yy) IN
    { acos_below_hundredth(cs[o[1]].dot) \/ acos_below_hundredth(cs[o[2]].dot) :
        o \in sorted_orders(cs) }

\* The variables of a column whose loop is not entered: hit = true.
StartRay_hit(px, py, angle) ==
  [state |-> "march", px |-> px, py |-> py, angle |-> angle,
   nx |-> sin(angle), ny |-> cos(angle),
   dist |-> FZero, hit |-> TRUE, bound |-> FALSE,
   wall |-> FALSE, xx |-> 0, yy |-> 0, steps |-> 0]

\* The variables of the column at the head of its while loop.
StartRay(px, py, angle) ==
  [state |-> "march", px |-> px, py |-> py, angle |-> angle,
   nx |-> sin(angle), ny |-> cos(angle),
   dist |-> FZero, hit |-> FALSE, bound |-> FALSE,
   wall |-> FALSE, xx |-> 0, yy |-> 0, steps |-> 0]

\* A level without any wall, of w x h cells.
OpenLevel(w, h) ==
  CHOOSE M \in LevelMap(LayoutOf([i \in 1..h |-> w], "floor", TRUE, <<>>)) : TRUE

\* Side of the open level: larger than MAX_DEPTH.
OpenSide == 17

\* PI / 2, PI * 1.5f, PI / 4 and FOV / 2 as ray angles.
HalfPi == FDiv(PI, IntToF(2))

ThreeHalfPi == FMul(PI, FDiv(IntToF(3), IntToF(2)))

QuarterPi == FDiv(PI, IntToF(4))

RayAngles ==
  { FZero, HalfPi, PI, ThreeHalfPi, QuarterPi,
    FDiv(FOV, IntToF(2)), FSub(FZero, FDiv(FOV, IntToF(2))) }

\* Levels and the player positions in them from which rays are cast.
RayOrigins ==
  { <<MAP, 7, 1>>, <<MAP, 1, 1>>, <<MAP, 16, 3>>, <<MAP3, 1, 1>>,
    <<OpenLevel(OpenSide, OpenSide), 1, 1>>,
    <<OpenLevel(OpenSide, OpenSide), 8, 8>>,
    <<OpenLevel(OpenSide, OpenSide), 15, 15>> }

InitRay ==
  /\ \E o \in RayOrigins : \E a \in RayAngles :
       /\ map = o[1]
       /\ p = Pose(IntToF(o[2]), IntToF(o[3]), a)
       /\ ray = StartRay(IntToF(o[2]), IntToF(o[3]), a)
  /\ pc = "render"
  /\ key = "none"
  /\ keys = 0
  /\ q = NoQuery
  /\ start = p
  /\ calc = NoCalc

\* One pass through the body of while (!hit && (dist_wall < MAX_DEPTH)).
MarchStep ==
  /\ ray.state = "march"
  /\ ~ray.hit /\ FLt(ray.dist, MAX_DEPTH)
  /\ LET dist     == FAdd(ray.dist, TENTH)
         xx       == ray_cell(ray.px, ray.nx, dist)
         yy       == ray_cell(ray.py, ray.ny, dist)
         hit_wall == is_wall(map, xx, yy)
     IN \E b \in (IF hit_wall THEN bound_values(ray, xx, yy) ELSE {ray.bound}) :
          ray' = [ray EXCEPT !.dist = dist, !.xx = xx, !.yy = yy,
                             !.wall = hit_wall,
                             !.hit = ray_hit(map, xx, yy, hit_wall),
                             !.bound = b,
                             !.steps = ray.steps + 1]
  /\ UNCHANGED <<map, p, pc, key, keys, q, start, calc>>

\* The loop condition fails: the march of the column is over.
MarchEnd ==
  /\ ray.state = "march"
  /\ ~(~ray.hit /\ FLt(ray.dist, MAX_DEPTH))
  /\ ray' = [ray EXCEPT !.state = "done"]
  /\ UNCHANGED <<map, p, pc, key, keys, q, start, calc>>

NextRay ==
  \/ MarchStep
  \/ MarchEnd

SpecRay == InitRay /\ [][NextRay]_vars

\* ------------------------------------------------------------------------
\* distance_to_wall_shade
\* ------------------------------------------------------------------------

\* Colour pair of the background, used for walls at MAX_DEPTH and beyond.
WALL_COLOR_X == 10

NUMBER_OF_WALL_SHADES == 16

\* make_array_with_indices<int, NUMBER_OF_WALL_SHADES, 11>(): 11, 12, 13, ...
\* WALL_SHADES[i + 1] is the element at index i; Screen::Screen gives colour
\* pair WALL_SHADES.at(i) the grey level 1000 - i * (1000 / 16).
WALL_SHADES == [i \in 1..NUMBER_OF_WALL_SHADES |-> 10 + i]

\* std::clamp(v, lo, hi)
clamp(v, lo, hi) == IF FLt(v, lo) THEN lo ELSE IF FLt(hi, v) THEN hi ELSE v

\* shade_level with shade = std::clamp(MAX_DEPTH - d, 0.0f, MAX_DEPTH).
shade_level_full_range(d) ==
  LET shade == clamp(FSub(MAX_DEPTH, d), FZero, MAX_DEPTH)
  IN FTrunc(FMul(shade, FDiv(IntToF(NUMBER_OF_WALL_SHADES), MAX_DEPTH)))

\* static_cast<std::size_t>(shade * (WALL_SHADES.size() / MAX_DEPTH)) for
\* shade = std::clamp(MAX_DEPTH - (2.0f * d), 0.0f, MAX_DEPTH).
shade_level(d) ==
  LET shade == clamp(FSub(MAX_DEPTH, FMul(IntToF(2), d)), FZero, MAX_DEPTH)
  IN FTrunc(FMul(shade, FDiv(IntToF(NUMBER_OF_WALL_SHADES), MAX_DEPTH)))

\* distance_to_wall_shade(d): the colour pair returned, or the
\* std::out_of_range of WALL_SHADES.at when the index
\* WALL_SHADES.size() - 1 - level wraps around below zero.
distance_to_wall_shade(d) ==
  IF FLt(d, MAX_DEPTH)
  THEN LET level == shade_level(d) IN
         IF level > NUMBER_OF_WALL_SHADES - 1
         THEN [outcome |-> "out_of_range", shade |-> 0]
         ELSE [outcome |-> "ok",
               shade |-> WALL_SHADES[NUMBER_OF_WALL_SHADES - 1 - level + 1]]
  ELSE [outcome |-> "ok", shade |-> WALL_COLOR_X]

\* The floats next above and next below a positive float.
FNextUp(a) ==
  IF a.m + 1 < Pow2(MantBits) THEN [a EXCEPT !.m = a.m + 1]
  ELSE [m |-> Pow2(MantBits - 1), e |-> a.e + 1]

FNextDown(a) ==
  IF a.m - 1 >= Pow2(MantBits - 1) THEN [a EXCEPT !.m = a.m - 1]
  ELSE [m |-> Pow2(MantBits) - 1, e |-> a.e - 1]

\* Distances are taken on a grid of 1 / ShadeDen, up to MAX_DEPTH + 1.
ShadeDen == 32

\* The small distances go down to 2^-ShadeSmallExp.
ShadeSmallExp == 26

\* The distance j * MAX_DEPTH / (2 * NUMBER_OF_WALL_SHADES).
ShadeEdge(j) ==
  FDiv(FMul(MAX_DEPTH, IntToF(j)), IntToF(2 * NUMBER_OF_WALL_SHADES))

\* The distances distance_to_wall_shade is called with: the grid, the
\* floats around the multiples of MAX_DEPTH / 32, and powers of two down
\* to 2^-ShadeSmallExp.
ShadeDistances ==
  { FDiv(IntToF(n), IntToF(ShadeDen)) :
      n \in 0..((NUMBER_OF_WALL_SHADES) * ShadeDen) }
  \cup UNION { { ShadeEdge(j), FNextUp(ShadeEdge(j)), FNextUp(FNextUp(ShadeEdge(j))),
                 FNextDown(ShadeEdge(j)) } : j \in 1..(2 * NUMBER_OF_WALL_SHADES) }
  \cup { [m |-> Pow2(MantBits - 1), e |-> k - (MantBits - 1)] : k \in (0 - ShadeSmallExp)..0 }

InitShade ==
  /\ \E d \in ShadeDistances : ray = [state |-> "distance", dist |-> d]
  /\ map = MAP
  /\ p = InitialPose
  /\ pc = "render"
  /\ key = "none"
  /\ keys = 0
  /\ q = NoQuery
  /\ start = p
  /\ calc = NoCalc

\* const int wall_shade = distance_to_wall_shade(dist_wall)
Shade ==
  /\ ray.state = "distance"
  /\ LET r == distance_to_wall_shade(ray.dist) IN
       ray' = [state |-> "shaded", dist |-> ray.dist,
               outcome |-> r.outcome, shade |-> r.shade]
  /\ UNCHANGED <<map, p, pc, key, keys, q, start, calc>>

NextShade == Shade

SpecShade == InitShade /\ [][NextShade]_vars

\* ------------------------------------------------------------------------
\* The rows of one screen column
\* ------------------------------------------------------------------------

\* dist_ceiling: round(height / 2.0f - height / dist_wall) as a long.
dist_ceiling_of(h, d) ==
  FRound(FSub(FDiv(IntToF(h), IntToF(2)), FDiv(IntToF(h), d)))

\* dist_floor without the subtraction: the height itself.
dist_floor_full_height(h, c) == h

\* dist_floor: round(s.height - dist_ceiling), computed in long (of 64 bits).
dist_floor_of(h, c) == h - c

\* The literal 0.9f.
NINE_TENTHS == [m |-> 15099494, e |-> 0 - 24]

\* The glyph of the floor at row y: d = 1 - (y - height / 2) / (height / 2)
\* against 0.25f, 0.5f, 0.75f and 0.9f.
floor_glyph(h, y) ==
  LET half == FDiv(IntToF(h), IntToF(2))
      d    == FSub(IntToF(1), FDiv(FSub(IntToF(y), half), half))
  IN IF FLt(d, FDiv(IntToF(1), IntToF(4))) THEN "#"
     ELSE IF FLt(d, FDiv(IntToF(1), IntToF(2))) THEN "x"
     ELSE IF FLt(d, FDiv(IntToF(3), IntToF(4))) THEN "-"
     ELSE IF FLt(d, NINE_TENTHS) THEN "."
     ELSE " "

\* What the body of the row loop prints at (x, y): nothing under the
\* mini-map, else ceiling, wall (or wall bound) in the colour pair
\* wall_shade, or floor.  (y is compared with the long values as a long of
\* 64 bits, so a negative dist_ceiling is below every row.)
row_cell(M, c, x, y) ==
  IF ~(x >= M.width \/ y >= M.height)
  THEN [kind |-> "none", glyph |-> "", pair |-> 0]
  ELSE IF y < c.ceiling
  THEN [kind |-> "ceiling", glyph |-> " ", pair |-> 0]
  ELSE IF y > c.ceiling /\ y <= c.floor
  THEN [kind |-> "wall", glyph |-> IF c.bound THEN "bound" ELSE "block",
        pair |-> c.shade]
  ELSE [kind |-> "floor", glyph |-> floor_glyph(c.h, y), pair |-> 0]

\* Largest screen height (s.height) of a column.
MaxHeight == 24

ScreenHeights == { h \in 1..MaxHeight : h % 8 \in {0, 1} }

\* A column x of the frame on a screen of some height, at the head of its
\* march; x is a column under the mini-map or the first one beside it.
InitColumn ==
  /\ map = MAP
  /\ \E h \in ScreenHeights, x \in {0, MAP.width} :
       ray = [state |-> "march", x |-> x, h |-> h, dist |-> FZero,
              bound |-> FALSE]
  /\ p = InitialPose
  /\ pc = "render"
  /\ key = "none"
  /\ keys = 0
  /\ q = NoQuery
  /\ start = p
  /\ calc = NoCalc

\* One pass through the march loop that does not end it (no hit).
MarchOn ==
  /\ ray.state = "march"
  /\ FLt(ray.dist, MAX_DEPTH)
  /\ ray' = [ray EXCEPT !.dist = FAdd(ray.dist, TENTH)]
  /\ UNCHANGED <<map, p, pc, key, keys, q, start, calc>>

\* Column for a march whose loop has not run: the wall shade of the distance
\* 0 that dist_wall starts with.
Column_unmarched ==
  /\ ray.state = "march"
  /\ ray.dist = FZero
  /\ LET w == distance_to_wall_shade(ray.dist)
     IN ray' = [state |-> IF w.outcome = "ok" THEN "rows" ELSE "failed",
                x |-> ray.x, h |-> ray.h, dist |-> ray.dist, bound |-> FALSE,
                ceiling |-> 0, floor |-> ray.h, shade |-> w.shade,
                y |-> 0, cell |-> [kind |-> "none", glyph |-> "", pair |-> 0]]
  /\ UNCHANGED <<map, p, pc, key, keys, q, start, calc>>

\* The march has ended at ray.dist, by a hit (with either value of bound)
\* or at MAX_DEPTH: dist_ceiling, dist_floor and wall_shade of the column.
Column ==
  /\ ray.state = "march"
  /\ ray.dist # FZero
  /\ \E b \in BOOLEAN :
       LET c == dist_ceiling_of(ray.h, ray.dist)
           f == dist_floor_of(ray.h, c)
           w == distance_to_wall_shade(ray.dist)
       IN ray' = [state |-> IF w.outcome = "ok" THEN "rows" ELSE "failed",
                  x |-> ray.x, h |-> ray.h, dist |-> ray.dist, bound |-> b,
                  ceiling |-> c, floor |-> f, shade |-> w.shade,
                  y |-> 0, cell |-> [kind |-> "none", glyph |-> "", pair |-> 0]]
  /\ UNCHANGED <<map, p, pc, key, keys, q, start, calc>>

\* One pass through the body of for (y = 0; y < s.height; y++): ray.cell is
\* what row ray.y - 1 has got.
Row ==
  /\ ray.state = "rows"
  /\ ray.y < ray.h
  /\ ray' = [ray EXCEPT !.cell = row_cell(map, ray, ray.x, ray.y),
                        !.y = ray.y + 1]
  /\ UNCHANGED <<map, p, pc, key, keys, q, start, calc>>

NextColumn ==
  \/ MarchOn
  \/ Column
  \/ Row

SpecColumn == InitColumn /\ [][NextColumn]_vars

\* ------------------------------------------------------------------------
\* The frame loop when only the key 'a' is pressed, from any heading
\* ------------------------------------------------------------------------

\* Number of 'a' keys read in one run.
MaxLefts == 63

\* Headings are taken on a grid of 1 / CircleDen.
CircleDen == 8

\* The headings to start from: the grid below 2 * PI, the headings of the
\* poses above, and the least and the greatest heading above 0.
CircleStarts ==
  { h \in { FDiv(IntToF(k), IntToF(CircleDen)) : k \in 0..(7 * CircleDen) } :
      FLt(h, PI2) }
  \cup { PoseTurned.angle, PoseAfterRun.angle, FNextDown(PI2),
         [m |-> Pow2(MantBits - 1), e |-> 0 - 60] }

InitCircle ==
  /\ map = MAP
  /\ \E h \in CircleStarts : p = Pose(IntToF(7), IntToF(1), h)
  /\ pc = "render"
  /\ key = "none"
  /\ keys = 0
  /\ q = NoQuery
  /\ start = p
  /\ calc = NoCalc
  /\ ray = NoRay

LeftAgain == Read("Left", MaxLefts) /\ p' = turn_ccw(p) /\ pc' = "render"

NextCircle ==
  \/ Render
  \/ LeftAgain

SpecCircle == InitCircle /\ [][NextCircle]_vars

\* ------------------------------------------------------------------------
\* Properties
\* ------------------------------------------------------------------------

\* A step of the loop that read one of the keys ks.
ReadOneOf(ks) == keys' = keys + 1 /\ key' \in ks

\* The position that a move key tries: the player one step further.
Tentative(k, pl) == IF k = "Up" THEN move_up(pl) ELSE move_down(pl)

\* C1: a Forward or Backward command ends with the player at the tentative
\* position (x, y) +/- 0.1 * (sin, cos) if and only if that position does not
\* round to a wall cell; otherwise x and y are what they were before.
C1_MoveAllOrNothing ==
  [][ReadOneOf({"Up", "Down"}) =>
       LET t == Tentative(key', p) IN
         IF in_wall(map, t) THEN p'.x = p.x /\ p'.y = p.y ELSE p' = t]_vars

\* C2 as stated: in the 3x3 level, from the centre and facing the wall, a
\* single Forward leaves the position unchanged.
C2_ForwardRejected ==
  [][(map = MAP3 /\ p = PoseCentre /\ ReadOneOf({"Up"})) =>
       (p'.x = p.x /\ p'.y = p.y)]_vars

\* C2 as amended: in the 3x3 level, from the centre and facing the wall, a
\* single Forward is committed: the player moves 0.1 towards the wall, to
\* (1, 1.1), which still rounds to the open centre cell.  Facing the wall,
\* Forward is rejected (and the position kept) exactly when the tentative
\* position rounds to the wall cell (1, 2).
C2_ForwardCommitted ==
  [][(map = MAP3 /\ p.x = PoseCentre.x /\ p.angle = PoseCentre.angle
        /\ ReadOneOf({"Up"})) =>
       /\ p = PoseCentre =>
            (p'.x = p.x /\ p'.y = FAdd(p.y, TENTH) /\ FRound(p'.y) = 1)
       /\ IF FRound(FAdd(p.y, TENTH)) = 2
          THEN p' = p
          ELSE p'.y = FAdd(p.y, TENTH) /\ p'.x = p.x]_vars

\* C2 witness: the player has left the centre by one Forward step.
C2_Moved ==
  /\ map = MAP3 /\ key = "Up" /\ keys = 1
  /\ p = Pose(IntToF(1), FAdd(IntToF(1), TENTH), FZero)

\* C3: in the built-in level the cell (round(x), round(y)) of the player is
\* inside the level and is not a wall, after any sequence of keys.
C3_PlayerInOpenCell ==
  map = MAP =>
    /\ ~is_oob(map, FRound(p.x), FRound(p.y))
    /\ ~is_wall(map, FRound(p.x), FRound(p.y))

\* C4: the heading is at least 0 and below 2*pi in every reachable state: the
\* turns wrap around.
C4_HeadingNormalized == p.angle.m >= 0 /\ FLt(p.angle, PI2)

\* C4 witness: a right turn has wrapped the heading around 2*pi (the heading
\* is below one turn step although the last key turned it up).
C4_WrappedRight == key = "Right" /\ FLt(p.angle, TENTH)

\* The rows of a layout: the runs of characters that a newline ends.
RECURSIVE SplitRows(_, _, _)
SplitRows(s, cur, rows) ==
  IF s = <<>> THEN rows
  ELSE IF Head(s) = NL THEN SplitRows(Tail(s), <<>>, Append(rows, cur))
  ELSE SplitRows(Tail(s), Append(cur, Head(s)), rows)

Rows(s) == SplitRows(s, <<>>, <<>>)

\* All newline-terminated rows have the same length.
Rectangular(s) ==
  \A i, j \in 1..Len(Rows(s)) : Len(Rows(s)[i]) = Len(Rows(s)[j])

\* C8: no LevelMap is produced from a layout in which two newline-terminated
\* rows differ in length: the constructor rejects it.
C8_NonRectangularRejected == map.outcome = "ok" => Rectangular(map.format)

\* Length of the first row (up to the first newline, or to the end).
FirstRowLen(s) ==
  IF Rows(s) = <<>> THEN Len(s) ELSE Len(Rows(s)[1])

\* C9: a layout whose first row is shorter than 3, or that has fewer than 3
\* rows, is rejected with std::invalid_argument.
C9_TooSmallRejected ==
  (map.outcome # "none" /\ (FirstRowLen(map.format) < 3 \/ Len(Rows(map.format)) < 3))
    => map.outcome = "invalid_argument"

\* The character at row y, column x of a layout; "none" where the row or the
\* column does not exist.
RowCol(s, y, x) ==
  IF y >= 0 /\ y < Len(Rows(s)) /\ x >= 0 /\ x < Len(Rows(s)[y + 1])
  THEN Rows(s)[y + 1][x + 1]
  ELSE "none"

\* C10: is_oob(x, y) iff x < 0 or y < 0 or x >= width or y >= height; is_wall
\* is false when is_oob is true, without reading the layout out of range;
\* otherwise it reads index (width + 1) * y + x, which is no row terminator,
\* and is true iff the character at row y, column x of the layout is '#'.
C10_OobAndWall ==
  q.asked =>
    /\ q.oob <=> (q.x < 0 \/ q.y < 0 \/ q.x >= map.width \/ q.y >= map.height)
    /\ ~q.thrown
    /\ q.oob => ~q.wall
    /\ ~q.oob =>
         /\ at(map.format, cell_index(map, q.x, q.y)) # NL
         /\ q.wall <=> (RowCol(map.format, q.y, q.x) = "#")

\* ------------------------------------------------------------------------
\* The ray march
\* ------------------------------------------------------------------------

\* The march of the column has ended.
RayDone == ray.state = "done"

\* The ray has its results within one step past MAX_DEPTH.
WithinReach == FLt(ray.dist, FAdd(MAX_DEPTH, TENTH))

Ahead ==
  IF ray.angle = FZero THEN <<0, 1>>
  ELSE IF ray.angle = HalfPi THEN <<1, 0>>
  ELSE IF ray.angle = PI THEN <<0, 0 - 1>>
  ELSE IF ray.angle = ThreeHalfPi THEN <<0 - 1, 0>>
  ELSE <<0, 0>>

\* An axis-aligned ray from a cell centre with a wall in the adjacent cell.
AdjacentWallAhead ==
  /\ Ahead # <<0, 0>>
  /\ ~is_oob(map, FRound(ray.px) + Ahead[1], FRound(ray.py) + Ahead[2])
  /\ is_wall(map, FRound(ray.px) + Ahead[1], FRound(ray.py) + Ahead[2])

HALF == FDiv(IntToF(1), IntToF(2))

\* C6 as stated: such a ray hits at a distance within one step of 1.
C6_AdjacentWallAtOne ==
  (RayDone /\ AdjacentWallAhead) =>
    /\ ray.hit
    /\ ~FLt(ray.dist, FSub(IntToF(1), TENTH))
    /\ ~FLt(FAdd(IntToF(1), TENTH), ray.dist)

\* C6 as the code has it: such a ray hits the adjacent cell at a distance of
\* one half to one half plus one step, a sample belonging to the cell its
\* coordinates round to.
C6_AdjacentWallAtHalf ==
  (RayDone /\ AdjacentWallAhead) =>
    /\ ray.hit /\ ray.wall
    /\ ray.xx = FRound(ray.px) + Ahead[1]
    /\ ray.yy = FRound(ray.py) + Ahead[2]
    /\ ~FLt(ray.dist, HALF)
    /\ ~FLt(FAdd(HALF, TENTH), ray.dist)

\* The ray from the centre of the 3x3 level towards -y has hit the wall.
C6_HitBehindCentre ==
  /\ RayDone /\ AdjacentWallAhead
  /\ map = MAP3 /\ ray.angle = PI
  /\ ray.hit /\ ray.dist = FAdd(HALF, TENTH)

\* C7: in the 3x3 level, with the player at (1, 1) facing angle 0, the
\* straight-ahead ray is not classified as a wall boundary.
C7_CentreRayNotBoundary ==
  (RayDone /\ map = MAP3 /\ ray.px = IntToF(1) /\ ray.py = IntToF(1)
     /\ ray.angle = FZero)
    => ~ray.bound

\* ------------------------------------------------------------------------
\* Wall shades
\* ------------------------------------------------------------------------

\* distance_to_wall_shade has been called with a distance below MAX_DEPTH.
ShadedInRange == ray.state = "shaded" /\ FLt(ray.dist, MAX_DEPTH)

\* Brightness bucket of a colour pair of WALL_SHADES: 15 for the brightest
\* (index 0), 0 for the darkest (index 15).
Brightness(shade) == NUMBER_OF_WALL_SHADES - 1 - (shade - WALL_SHADES[1])

\* floor((MAX_DEPTH - d) * N / MAX_DEPTH) clamped to [0, N - 1], computed
\* exactly: the number of k in 1..N-1 with d <= MAX_DEPTH - k * MAX_DEPTH / N.
FullRangeBucket(d) ==
  Cardinality({ k \in 1..(NUMBER_OF_WALL_SHADES - 1) :
                  ~FLt(ShadeEdge(2 * (NUMBER_OF_WALL_SHADES - k)), d) })

\* floor((MAX_DEPTH - 2 * d) * N / MAX_DEPTH) with 0 where it is negative,
\* computed exactly; N itself for d <= 0.
HalfRangeBucket(d) ==
  Cardinality({ k \in 1..NUMBER_OF_WALL_SHADES :
                  ~FLt(ShadeEdge(NUMBER_OF_WALL_SHADES - k), d) })

\* 2^-20: what the float product shade * (16 / 15) may exceed the exact one
\* by, in terms of the distance.
ShadeSlack == [m |-> Pow2(MantBits - 1), e |-> 0 - 20 - (MantBits - 1)]

\* C11 as stated: the brightness bucket of a distance d in [0, MAX_DEPTH) is
\* floor((MAX_DEPTH - d) * 16 / MAX_DEPTH) clamped to [0, 15], sixteen
\* buckets of equal width over [0, MAX_DEPTH).
C11_EqualBuckets ==
  ShadedInRange =>
    /\ ray.outcome = "ok"
    /\ Brightness(ray.shade) = FullRangeBucket(ray.dist)

\* C11 as the code has it: the brightness bucket is
\* floor((MAX_DEPTH - 2 * d) * 16 / MAX_DEPTH), at least 0: sixteen buckets
\* of width MAX_DEPTH / 32 over [0, MAX_DEPTH / 2], the darkest one from
\* there on; the float product may lift a distance less than 2^-20 beyond a
\* bucket's far edge into that bucket, and where the bucket comes out as 16
\* (d = 0 and the distances up to 2^-21) the call throws.
C11_HalfRangeBuckets ==
  ShadedInRange =>
    LET lo == HalfRangeBucket(ray.dist)
        hi == HalfRangeBucket(FSub(ray.dist, ShadeSlack))
    IN /\ ray.outcome = "ok" =>
            /\ Brightness(ray.shade) \in lo..hi
            /\ Brightness(ray.shade) <= NUMBER_OF_WALL_SHADES - 1
            /\ ~FLt(ray.dist, ShadeEdge(NUMBER_OF_WALL_SHADES))
                 => Brightness(ray.shade) = 0
       /\ ray.outcome # "ok" => hi = NUMBER_OF_WALL_SHADES
       /\ lo = NUMBER_OF_WALL_SHADES => ray.outcome # "ok"

\* A distance of two thirds of MAX_DEPTH has got the darkest wall shade.
C11_DarkestBeforeMaxDepth ==
  /\ ShadedInRange /\ ray.outcome = "ok"
  /\ ray.dist = IntToF(10)
  /\ Brightness(ray.shade) = 0
  /\ FullRangeBucket(ray.dist) = 5

\* C12: for all distances d1 <= d2 in [0, MAX_DEPTH) the shade of d2 is not
\* brighter than the shade of d1, and every distance of the interval, 0
\* included, has a shade.
C12_MonotoneAndTotal ==
  ShadedInRange =>
    /\ ray.outcome = "ok"
    /\ \A d1 \in ShadeDistances :
         ~FLt(ray.dist, d1) =>
           /\ distance_to_wall_shade(d1).outcome = "ok"
           /\ Brightness(ray.shade) <= Brightness(distance_to_wall_shade(d1).shade)

\* ------------------------------------------------------------------------
\* Rows of a column
\* ------------------------------------------------------------------------

\* The row loop has passed row ray.y - 1, and ray.cell is what it printed.
RowDrawn == ray.state = "rows" /\ ray.y > 0

\* The position (ray.x, ray.y - 1) lies under the mini-map.
UnderMiniMap == ray.x < map.width /\ ray.y - 1 < map.height

\* dist_ceiling is a nearest integer of height / 2 - height / dist_wall.
CeilingRounded ==
  LET v    == FSub(FDiv(IntToF(ray.h), IntToF(2)), FDiv(IntToF(ray.h), ray.dist))
      diff == FSub(IntToF(ray.ceiling), v)
  IN ~FLt(HALF, diff) /\ ~FLt(diff, FNeg(HALF))

\* C13 as stated: every row y of every column is drawn as ceiling when
\* y < ceiling_row, as wall when ceiling_row < y <= floor_row and as floor
\* when y > floor_row, with ceiling_row + floor_row = height.
C13_EveryRowDrawn ==
  RowDrawn =>
    LET y == ray.y - 1 IN
      /\ CeilingRounded
      /\ ray.ceiling + ray.floor = ray.h
      /\ y < ray.ceiling => ray.cell.kind = "ceiling"
      /\ (y > ray.ceiling /\ y <= ray.floor) => ray.cell.kind = "wall"
      /\ y > ray.floor => ray.cell.kind = "floor"

\* C13 as the code has it: the same for the rows the column loop draws;
\* under the mini-map (x < MAP.width and y < MAP.height) it draws nothing,
\* and the row y = ceiling_row is drawn by the floor branch.
C13_RowsBesideMiniMap ==
  RowDrawn =>
    LET y == ray.y - 1 IN
      /\ CeilingRounded
      /\ ray.ceiling + ray.floor = ray.h
      /\ UnderMiniMap => ray.cell.kind = "none"
      /\ ~UnderMiniMap =>
           /\ y < ray.ceiling =>
                (ray.cell.kind = "ceiling" /\ ray.cell.glyph = " ")
           /\ (y > ray.ceiling /\ y <= ray.floor) =>
                /\ ray.cell.kind = "wall"
                /\ ray.cell.pair = ray.shade
                /\ ray.cell.glyph = (IF ray.bound THEN "bound" ELSE "block")
           /\ y > ray.floor => ray.cell.kind = "floor"
           /\ y = ray.ceiling =>
                (ray.cell.kind = "floor" /\ ray.cell.glyph = floor_glyph(ray.h, y))

\* The last wall row of a column beside the mini-map has been drawn, below
\* some ceiling and above some floor.
C13_WallRowDrawn ==
  /\ RowDrawn /\ ~UnderMiniMap
  /\ ray.ceiling > 0 /\ ray.floor < ray.h - 1
  /\ ray.y - 1 = ray.floor
  /\ ray.cell.kind = "wall"

\* ------------------------------------------------------------------------
\* Turns, other keys and the end of the loop
\* ------------------------------------------------------------------------

\* 2^-18: more than the rounding errors of one turn add up to.
TurnSlack == [m |-> Pow2(MantBits - 1), e |-> 0 - 18 - (MantBits - 1)]

\* a and b differ by less than TurnSlack.
Near(a, b) == FLt(FSub(a, b), TurnSlack) /\ FLt(FNeg(TurnSlack), FSub(a, b))

\* The heading b is the heading a turned by the angle t, modulo 2 * PI.
TurnedBy(a, b, t) ==
  \/ Near(FSub(b, a), t)
  \/ Near(FSub(b, a), FAdd(t, PI2))
  \/ Near(FSub(b, a), FSub(t, PI2))

\* C14: a Left or Right key is always committed and changes the heading
\* only, Left by -0.1 and Right by +0.1 modulo 2 * PI; x and y stay as they
\* are, whatever walls surround the player.
C14_TurnOnlyHeading ==
  [][ReadOneOf({"Left", "Right"}) =>
       /\ p'.x = p.x /\ p'.y = p.y
       /\ pc' = "render"
       /\ p'.angle # p.angle
       /\ TurnedBy(p.angle, p'.angle,
                   IF key' = "Left" THEN FNeg(TENTH) ELSE TENTH)]_vars

\* The player in the open cell of the 3x3 level has turned left from
\* heading 0 and now has a heading just below 2 * PI.
C14_TurnedLeftAmidWalls ==
  /\ map = MAP3 /\ key = "Left" /\ keys = 1
  /\ p.x = PoseCentre.x /\ p.y = PoseCentre.y
  /\ FLt(PI, p.angle) /\ FLt(p.angle, PI2)

\* The headings a and b are no more than one turn step apart as angles,
\* that is modulo 2 * PI.
WithinOneStep(a, b) ==
  LET d == FSub(a, b) IN
    \/ (~FLt(TENTH, d) /\ ~FLt(d, FNeg(TENTH)))
    \/ ~FLt(TENTH, FSub(PI2, d))
    \/ ~FLt(TENTH, FAdd(PI2, d))

\* C15: after 63 Left keys from any heading h in [0, 2 * PI) the heading is
\* within one turn step (0.1) of h, as an angle (the turning wraps around).
C15_FullCircle ==
  (keys = 63 /\ key = "Left") =>
    /\ WithinOneStep(p.angle, start.angle)
    /\ p.angle # start.angle
    /\ p.angle.m >= 0 /\ FLt(p.angle, PI2)

\* 63 Left keys have been read from heading 3, and the heading has passed 0
\* on the way.
C15_AroundFromThree ==
  /\ keys = 63 /\ key = "Left"
  /\ start.angle = IntToF(3)
  /\ FLt(p.angle, start.angle)
  /\ FLt(FSub(start.angle, TENTH), p.angle)

\* C16: when the key read is Key::Other, x, y and heading of the player are
\* unchanged and the loop goes on to render another frame.
C16_OtherIsNoOp ==
  [][ReadOneOf({"Other"}) => (p' = p /\ pc' = "render" /\ map' = map)]_vars

\* A frame has been rendered after the key Other was read, with the player
\* where main() put it.
C16_FrameAfterOther ==
  /\ key = "Other" /\ keys = 1 /\ pc = "input"
  /\ p = start

\* C17: the loop ends exactly when Quit is read: Quit ends the program
\* without changing the player, every other key (a rejected move included)
\* leads to another frame, and no other state of the loop is final (short
\* of the MaxKeys keys of a run).
C17_EndsOnQuitOnly ==
  /\ [](pc = "done" => key = "Quit")
  /\ []((pc # "done" /\ keys < MaxKeys) => ENABLED (Render \/ KeyOther \/ KeyQuit))
  /\ [][/\ pc # "done"
        /\ pc' = "done" <=> ReadOneOf({"Quit"})
        /\ ReadOneOf({"Quit"}) => p' = p
        /\ ReadOneOf({"Up", "Down", "Left", "Right", "Other"}) => pc' = "render"]_vars

\* Quit has been read after a Forward key that was rejected at a wall and a
\* Forward key that moved the player.
C17_QuitAfterMoves ==
  /\ pc = "done" /\ key = "Quit" /\ keys > 2
  /\ map = MAP3
  /\ p.y # start.y

\* ------------------------------------------------------------------------
\* Corner at the ray origin
\* ------------------------------------------------------------------------

\* The corner entries computed for the wall cell the ray ended in.
HitCorners == corners(ray, ray.xx, ray.yy)

\* A corner of the hit wall cell lies on the ray origin: its distance is 0.
CornerAtOrigin ==
  /\ RayDone /\ ray.wall
  /\ \E i \in 1..4 : HitCorners[i].d = FZero

\* C18: when a corner of the hit wall cell lies on the ray origin, the
\* boundary check is skipped: no entry is computed by a division by the zero
\* distance (no entry holds the NaN of 0 / 0) and the hit is reported with
\* bound false.
C18_ZeroCornerSkipped ==
  CornerAtOrigin =>
    /\ \A i \in 1..4 : HitCorners[i].d = FZero => ~IsNaN(HitCorners[i].dot)
    /\ ~ray.bound

\* ------------------------------------------------------------------------
\* rpn-calculator_v17: integers and the type long
\* ------------------------------------------------------------------------

\* An integer of any size is a sign and its decimal digits, most significant
\* first and without leading zeros; zero has no digits and is not negative.

RECURSIVE StripZeros(_)
StripZeros(d) ==
  IF d # <<>> /\ Head(d) = 0 THEN StripZeros(Tail(d)) ELSE d

RECURSIVE Reverse(_)
Reverse(s) == IF s = <<>> THEN <<>> ELSE Append(Reverse(Tail(s)), Head(s))

\* Digit i of a number given least significant digit first.
DigitAt(s, i) == IF i <= Len(s) THEN s[i] ELSE 0

RECURSIVE LexCmp(_, _)
LexCmp(a, b) ==
  IF a = <<>> THEN 0
  ELSE IF Head(a) < Head(b) THEN 0 - 1
  ELSE IF Head(a) > Head(b) THEN 1
  ELSE LexCmp(Tail(a), Tail(b))

\* Comparison of two magnitudes: -1, 0 or 1.
MagCmp(a, b) ==
  IF Len(a) < Len(b) THEN 0 - 1
  ELSE IF Len(a) > Len(b) THEN 1
  ELSE LexCmp(a, b)

RECURSIVE AddLE(_, _, _, _)
AddLE(a, b, i, carry) ==
  IF i > Len(a) /\ i > Len(b)
  THEN (IF carry = 0 THEN <<>> ELSE <<carry>>)
  ELSE LET t == DigitAt(a, i) + DigitAt(b, i) + carry
       IN <<t % 10>> \o AddLE(a, b, i + 1, t \div 10)

MagAdd(a, b) == StripZeros(Reverse(AddLE(Reverse(a), Reverse(b), 1, 0)))

RECURSIVE SubLE(_, _, _, _)
SubLE(a, b, i, borrow) ==
  IF i > Len(a) THEN <<>>
  ELSE LET t == DigitAt(a, i) - DigitAt(b, i) - borrow
       IN <<(t + 10) % 10>> \o SubLE(a, b, i + 1, IF t < 0 THEN 1 ELSE 0)

\* a - b for magnitudes with a >= b.
MagSub(a, b) == StripZeros(Reverse(SubLE(Reverse(a), Reverse(b), 1, 0)))

RECURSIVE MulDigitLE(_, _, _, _)
MulDigitLE(a, k, i, carry) ==
  IF i > Len(a)
  THEN (IF carry = 0 THEN <<>> ELSE <<carry>>)
  ELSE LET t == a[i] * k + carry
       IN <<t % 10>> \o MulDigitLE(a, k, i + 1, t \div 10)

MagMulDigit(a, k) == StripZeros(Reverse(MulDigitLE(Reverse(a), k, 1, 0)))

\* a times the number of the first i digits of b.
RECURSIVE MulUpTo(_, _, _)
MulUpTo(a, b, i) ==
  IF i = 0 THEN <<>>
  ELSE LET prev == MulUpTo(a, b, i - 1)
       IN IF prev = <<>> THEN MagMulDigit(a, b[i])
          ELSE MagAdd(Append(prev, 0), MagMulDigit(a, b[i]))

MagMul(a, b) == MulUpTo(a, b, Len(b))

\* How many times b goes into cur, counted from k on, and what is left.
RECURSIVE DivStep(_, _, _)
DivStep(cur, b, k) ==
  IF MagCmp(cur, b) < 0 THEN [digit |-> k, rem |-> cur]
  ELSE DivStep(MagSub(cur, b), b, k + 1)

\* Long division of magnitudes, b not zero: quotient and remainder.
RECURSIVE LongDiv(_, _, _, _, _)
LongDiv(a, b, i, quot, rem) ==
  IF i > Len(a) THEN [quot |-> StripZeros(quot), rem |-> rem]
  ELSE LET step == DivStep(StripZeros(Append(rem, a[i])), b, 0)
       IN IF step.digit = 0 THEN LongDiv(a, b, i + 1, Append(quot, 0), step.rem)
          ELSE LongDiv(a, b, i + 1, Append(quot, step.digit), step.rem)

MagDivMod(a, b) == LongDiv(a, b, 1, <<>>, <<>>)

Z(neg, mag) ==
  LET m == StripZeros(mag) IN [neg |-> neg /\ m # <<>>, mag |-> m]

ZZero == Z(FALSE, <<>>)

ZNeg(a) == Z(~a.neg, a.mag)

ZAdd(a, b) ==
  IF a.neg = b.neg THEN Z(a.neg, MagAdd(a.mag, b.mag))
  ELSE IF MagCmp(a.mag, b.mag) >= 0 THEN Z(a.neg, MagSub(a.mag, b.mag))
  ELSE Z(b.neg, MagSub(b.mag, a.mag))

ZSub(a, b) == ZAdd(a, ZNeg(b))

ZMul(a, b) == Z(a.neg # b.neg, MagMul(a.mag, b.mag))

\* lhs / rhs and lhs % rhs of C++: the quotient is truncated towards zero,
\* the remainder has the sign of lhs.
ZDiv(a, b) == Z(a.neg # b.neg, MagDivMod(a.mag, b.mag).quot)

ZRem(a, b) == Z(a.neg, MagDivMod(a.mag, b.mag).rem)

ZLess(a, b) ==
  IF a.neg # b.neg THEN a.neg
  ELSE IF a.neg THEN MagCmp(a.mag, b.mag) > 0
  ELSE MagCmp(a.mag, b.mag) < 0

\* std::numeric_limits<long>::max() and lowest(), long of 64 bits.
LONG_MAX == Z(FALSE, <<9,2,2,3,3,7,2,0,3,6,8,5,4,7,7,5,8,0,7>>)

LONG_MIN == Z(TRUE, <<9,2,2,3,3,7,2,0,3,6,8,5,4,7,7,5,8,0,8>>)

\* static_cast<double>(std::numeric_limits<long>::max()): 2^63, the nearest
\* double of 2^63 - 1; static_cast<double>(lowest()) is -2^63 exactly.
LONG_MAX_AS_DOUBLE == ZNeg(LONG_MIN)

in_long(z) == ~ZLess(z, LONG_MIN) /\ ~ZLess(LONG_MAX, z)

\* The value of 64 bits in two's complement that is congruent to z.
wrap_long(z) ==
  LET two64 == ZAdd(LONG_MAX_AS_DOUBLE, LONG_MAX_AS_DOUBLE)
      r     == ZRem(ZSub(z, LONG_MIN), two64)
      m     == IF r.neg THEN ZAdd(r, two64) ELSE r
  IN ZAdd(m, LONG_MIN)

\* ------------------------------------------------------------------------
\* rpn-calculator_v17: tokens
\* ------------------------------------------------------------------------

\* A word of the input, and a line of the output, is a sequence of strings
\* (a word: of its characters).

DIGITS == <<"0", "1", "2", "3", "4", "5", "6", "7", "8", "9">>

\* constexpr std::string OPERATORS = "+-*/%"
OPERATORS == <<"+", "-", "*", "/", "%">>

Range(s) == { s[i] : i \in 1..Len(s) }

\* std::isdigit(c, loc)
is_digit(c) == c \in Range(DIGITS)

Operand(value) == [kind |-> "Operand", value |-> value, op |-> ""]

Operator_token(op) == [kind |-> "Operator", value |-> <<>>, op |-> op]

Eoc == [kind |-> "Eoc", value |-> <<>>, op |-> ""]

Invalid == [kind |-> "Invalid", value |-> <<>>, op |-> ""]

\* read_token(): input is the word that source >> input extracted, empty
\* when the stream is at its end.
read_token(input) ==
  IF input = <<>> THEN Eoc
  ELSE IF \A i \in 1..Len(input) : is_digit(input[i]) THEN Operand(input)
  ELSE IF /\ Len(input) > 1
          /\ input[1] = "-"
          /\ \A i \in 2..Len(input) : is_digit(input[i])
       THEN Operand(input)
  ELSE IF Len(input) = 1 /\ input[1] \in Range(OPERATORS)
       THEN Operator_token(input[1])
  ELSE Invalid

\* The digits that the characters of a word of digits stand for.
RECURSIVE digit_values(_)
digit_values(chars) ==
  IF chars = <<>> THEN <<>>
  ELSE <<CHOOSE d \in 0..9 : DIGITS[d + 1] = Head(chars)>>
         \o digit_values(Tail(chars))

\* The characters of a sequence of digits.
RECURSIVE digit_chars(_)
digit_chars(digits) ==
  IF digits = <<>> THEN <<>>
  ELSE <<DIGITS[Head(digits) + 1]>> \o digit_chars(Tail(digits))

\* Place of the decimal point in a word; Len + 1 in a word without one.
point(value) ==
  IF \E i \in 1..Len(value) : value[i] = "."
  THEN CHOOSE i \in 1..Len(value) :
         value[i] = "." /\ \A j \in 1..(i - 1) : value[j] # "."
  ELSE Len(value) + 1

\* The operand text begins with '-'.
negative(value) == value # <<>> /\ value[1] = "-"

\* std::from_chars reports an error: after the optional '-' the text does
\* not begin with a digit, or with a point and a digit.
from_chars_error(value) ==
  LET body == IF negative(value) THEN Tail(value) ELSE value IN
    IF body = <<>> THEN TRUE
    ELSE IF body[1] = "." THEN Len(body) < 2 \/ ~is_digit(body[2])
    ELSE ~is_digit(body[1])

\* std::from_chars on digits with an optional '-' in front and an optional
\* point and digits behind: the integer that the digits before the point
\* denote, which is the value truncated toward zero. (long double holds
\* every integer up to 2^64 exactly, and rounds a larger one to a value that
\* is still larger than 2^63.)
from_chars(value) ==
  LET whole == SubSeq(value, 1, point(value) - 1) IN
    IF negative(value) THEN Z(TRUE, digit_values(Tail(whole)))
    ELSE Z(FALSE, digit_values(whole))

\* The value has digits other than 0 behind the point: a fractional part,
\* of at least 10^-MaxFraction for the texts that are parsed here, which the
\* long double keeps apart from 0 and from epsilon for the values below 2^32.
fractional(value) ==
  \E i \in (point(value) + 1)..Len(value) : value[i] # "0"

\* operator<< of a long: decimal digits after a '-' for a negative value.
format_long(z) ==
  IF z.mag = <<>> THEN <<"0">>
  ELSE (IF z.neg THEN <<"-">> ELSE <<>>) \o digit_chars(z.mag)

\* Outcomes of an expression: a value, an exception with its message, or the
\* end of the process (a signal).
Value(v) == [outcome |-> "ok", value |-> v, what |-> <<>>]

Throw(type, what) == [outcome |-> type, value |-> ZZero, what |-> what]

Killed == [outcome |-> "killed", value |-> ZZero, what |-> <<>>]

INT_MAX == Z(FALSE, <<2,1,4,7,4,8,3,6,4,7>>)

INT_MIN == Z(TRUE, <<2,1,4,7,4,8,3,6,4,8>>)

\* std::numeric_limits<T>: max(), lowest(), and static_cast<double>(max()),
\* which is 2^63 for long.
numeric_limits(T) ==
  IF T = "int"
  THEN [max |-> INT_MAX, lowest |-> INT_MIN, max_as_double |-> INT_MAX]
  ELSE [max |-> LONG_MAX, lowest |-> LONG_MIN,
        max_as_double |-> LONG_MAX_AS_DOUBLE]

\* Tokens::Operand::parse<T>() for T int or long: the set of its possible
\* outcomes. std::fmod(v, 1.0) has the sign of v, so that it is larger than
\* epsilon for a positive v with a fractional part only. The conversion of
\* a v that passes the overflow check and is larger than max(), which is
\* 2^63 for long, is undefined: it gives the lowest or the largest T.
parse_as(T, value) ==
  IF value = <<>>
  THEN {Throw("logic_error", <<"trying to call parse on an empty value">>)}
  ELSE IF from_chars_error(value)
  THEN {Throw("calculation_error",
              <<"failed to parse input '">> \o value \o <<"'">>)}
  ELSE LET v      == from_chars(value)
           limits == numeric_limits(T)
       IN
    IF ~negative(value) /\ fractional(value)
    THEN {Throw("logic_error",
                <<"failed to parse input '">> \o value
                  \o <<"': invalid cross-type parse">>)}
    ELSE IF \/ ZLess(limits.max_as_double, v)
            \/ ZLess(v, limits.lowest)
            \/ v = limits.lowest /\ fractional(value)
    THEN {Throw("calculation_error",
                <<"failed to parse input '">> \o value
                  \o <<"': parse type value overflow">>)}
    ELSE IF ZLess(limits.max, v) THEN {Value(limits.lowest), Value(limits.max)}
    ELSE {Value(v)}

\* Tokens::Operand::parse<long>()
parse(value) == parse_as("long", value)

\* A long result: r if it is a long, else the signed overflow is undefined:
\* the value wraps or the process ends.
long_result(r) ==
  IF in_long(r) THEN {Value(r)} ELSE {Value(wrap_long(r)), Killed}

\* calculate() without its tests of rhs == 0: the division by zero is
\* undefined and ends the process.
calculate_unguarded(lhs, rhs, op) ==
  IF op = "+" THEN long_result(ZAdd(lhs, rhs))
  ELSE IF op = "-" THEN long_result(ZSub(lhs, rhs))
  ELSE IF op = "*" THEN long_result(ZMul(lhs, rhs))
  ELSE IF op \in {"/", "%"} THEN
    IF rhs = ZZero THEN {Killed}
    ELSE IF ~in_long(ZDiv(lhs, rhs)) THEN {Value(ZZero), Killed}
    ELSE IF op = "/" THEN {Value(ZDiv(lhs, rhs))}
    ELSE {Value(ZRem(lhs, rhs))}
  ELSE {Throw("invalid_argument", <<"unsupported operator">>)}

\* calculate<long>(lhs, rhs, op): the set of its possible outcomes.
calculate(lhs, rhs, op) ==
  IF op = "+" THEN long_result(ZAdd(lhs, rhs))
  ELSE IF op = "-" THEN long_result(ZSub(lhs, rhs))
  ELSE IF op = "*" THEN long_result(ZMul(lhs, rhs))
  ELSE IF op = "/" THEN
    IF rhs = ZZero THEN {Throw("calculation_error", <<"division by zero">>)}
    ELSE long_result(ZDiv(lhs, rhs))
  ELSE IF op = "%" THEN
    IF rhs = ZZero THEN {Throw("calculation_error", <<"division by zero">>)}
    ELSE IF ~in_long(ZDiv(lhs, rhs)) THEN {Value(ZZero), Killed}
    ELSE {Value(ZRem(lhs, rhs))}
  ELSE {Throw("invalid_argument", <<"unsupported operator">>)}

\* Stack<long, 2>: the array data_ and the stack pointer sp_. The elements
\* of data_ from sp_ on are never read; those of a stack that was just
\* constructed are indeterminate.
Stack2(d1, d2) == [data_ |-> <<d1, d2>>, sp_ |-> 0]

\* push() that writes the upper element of a full stack.
push_over(m, element) ==
  IF m.sp_ < 2
  THEN [data_ |-> [m.data_ EXCEPT ![m.sp_ + 1] = element], sp_ |-> m.sp_ + 1]
  ELSE [m EXCEPT !.data_[2] = element]

\* push(element): the stack after the call, and the value returned.
push(m, element) ==
  IF m.sp_ < 2
  THEN [data_ |-> [m.data_ EXCEPT ![m.sp_ + 1] = element], sp_ |-> m.sp_ + 1]
  ELSE m

push_result(m) == m.sp_ < 2

\* pop() that leaves the stack pointer where it is.
pop_stays(m) == m

\* pop(): the stack after the call (the long moved from stays as it is in
\* data_), and the optional returned, whose value is top(m).
pop(m) == IF m.sp_ > 0 THEN [m EXCEPT !.sp_ = @ - 1] ELSE m

top(m) == m.data_[m.sp_]

pop_result(m) ==
  IF m.sp_ > 0 THEN [has_value |-> TRUE, value |-> top(m)]
  ELSE [has_value |-> FALSE, value |-> ZZero]

size(m) == m.sp_

\* ------------------------------------------------------------------------
\* rpn-calculator_v17: main()
\* ------------------------------------------------------------------------

\* calc holds the variables of main() (s, m, got_operator, stop), the words
\* on standard input with the number of read_token() calls made so far, the
\* lines written to std::cout and std::cerr, and whether main() is running,
\* has returned, or was killed by a signal. (The indeterminate elements of
\* the memory, which are never read, stand as 0.)
StartCalc(stdin) ==
  [state |-> "run", s |-> "Operand1", m |-> Stack2(ZZero, ZZero),
   got_operator |-> FALSE, stop |-> FALSE,
   stdin |-> stdin, reads |-> 0, cout |-> <<>>, cerr |-> <<>>]

\* The word that source >> input extracts next: empty at the end of input.
next_word(c) ==
  IF c.reads < Len(c.stdin) THEN c.stdin[c.reads + 1] ELSE <<>>

\* catch (const calculation_error& e) that goes on with the loop.
caught_goes_on(c, o) ==
  IF o.outcome = "calculation_error"
  THEN [c EXCEPT !.cout = Append(@, <<"Error: ">> \o o.what)]
  ELSE IF o.outcome = "killed" THEN [c EXCEPT !.state = "killed"]
  ELSE [c EXCEPT !.cerr = Append(@, <<"Caught exception: ">> \o o.what),
                 !.state = "returned"]

\* An outcome o that is not a value leaves the visit: a calculation_error is
\* caught in the loop, any other exception by the handler around the loop,
\* and a signal ends the process.
caught(c, o) ==
  IF o.outcome = "calculation_error"
  THEN [c EXCEPT !.cout = Append(@, <<"Error: ">> \o o.what),
                 !.stop = TRUE]
  ELSE IF o.outcome = "killed" THEN [c EXCEPT !.state = "killed"]
  ELSE [c EXCEPT !.cerr = Append(@, <<"Caught exception: ">> \o o.what),
                 !.state = "returned"]

\* The token name in the message of an unexpected token.
got(t) ==
  IF t.kind = "Operand" THEN "operand"
  ELSE IF t.kind = "Operator" THEN "operator"
  ELSE IF t.kind = "Eoc" THEN "end-of-calculation"
  ELSE "invalid token"

unexpected(expected, t) ==
  Throw("calculation_error", <<"expected ", expected, ", got ", got(t)>>)

\* One pass of the loop that begins in state s: read_token(), then the visit.
Turn(s) ==
  /\ calc.state = "run"
  /\ ~calc.stop
  /\ calc.s = s

\* [&](States::Operand1&)
Operand1 ==
  /\ Turn("Operand1")
  /\ LET t == read_token(next_word(calc))
         c == [calc EXCEPT !.reads = @ + 1]
     IN \E o \in (IF t.kind = "Operand" THEN parse(t.value)
                  ELSE {unexpected("operand 1", t)}) :
          calc' = IF o.outcome = "ok"
                  THEN [c EXCEPT !.m = push(@, o.value), !.s = "Operand2"]
                  ELSE caught(c, o)
  /\ UNCHANGED <<map, p, pc, key, keys, q, ray, start>>

\* [&](States::Operand2&)
Operand2 ==
  /\ Turn("Operand2")
  /\ LET t == read_token(next_word(calc))
         c == [calc EXCEPT !.reads = @ + 1]
     IN IF t.kind = "Eoc" /\ calc.got_operator
        THEN calc' = [c EXCEPT !.s = "Result"]
        ELSE \E o \in (IF t.kind = "Operand" THEN parse(t.value)
                       ELSE {unexpected("operand 2", t)}) :
               calc' = IF o.outcome = "ok"
                       THEN [c EXCEPT !.m = push(@, o.value), !.s = "Operator"]
                       ELSE caught(c, o)
  /\ UNCHANGED <<map, p, pc, key, keys, q, ray, start>>

\* [&](States::Operator&)
Operator ==
  /\ Turn("Operator")
  /\ LET t == read_token(next_word(calc))
         c == [calc EXCEPT !.reads = @ + 1]
     IN \E o \in (IF t.kind # "Operator" THEN {unexpected("operator", t)}
                  ELSE IF size(calc.m) # 2
                  THEN {Throw("logic_error", <<"expected two elements in memory">>)}
                  ELSE calculate(top(pop(calc.m)), top(calc.m), t.op)) :
          calc' = IF o.outcome = "ok"
                  THEN [c EXCEPT !.m = push(pop(pop(@)), o.value),
                                 !.got_operator = TRUE,
                                 !.s = "Operand2"]
                  ELSE IF t.kind = "Operator" /\ size(calc.m) = 2
                  THEN caught([c EXCEPT !.m = pop(pop(@))], o)
                  ELSE caught(c, o)
  /\ UNCHANGED <<map, p, pc, key, keys, q, ray, start>>

\* [&](States::Result&): the token read in this pass is not looked at.
Result ==
  /\ Turn("Result")
  /\ LET c == [calc EXCEPT !.reads = @ + 1]
     IN calc' = IF size(calc.m) # 1
                THEN caught(c, Throw("logic_error",
                                     <<"expected only a single result in memory">>))
                ELSE [c EXCEPT !.cout = Append(@, format_long(top(calc.m))),
                               !.m = pop(@),
                               !.stop = TRUE]
  /\ UNCHANGED <<map, p, pc, key, keys, q, ray, start>>

\* while (!stop) ends; return result.
Return ==
  /\ calc.state = "run"
  /\ calc.stop
  /\ calc' = [calc EXCEPT !.state = "returned"]
  /\ UNCHANGED <<map, p, pc, key, keys, q, ray, start>>

\* Number of words on standard input.
MaxInput == 5

\* Words on standard input: operands, the operators, a word that is
\* neither, and the operands 2^63 and 2^63 + 1 that are no long.
OperandWords == { <<"0">>, <<"-", "1">>, format_long(LONG_MIN) }

LargeWords ==
  { format_long(LONG_MAX_AS_DOUBLE),
    format_long(ZSub(LONG_MAX_AS_DOUBLE, Z(TRUE, <<1>>))) }

OperatorWords == { <<OPERATORS[i]>> : i \in 1..Len(OPERATORS) }

OtherWords == { <<"-", "x">> }

Words == OperandWords \cup OperatorWords \cup OtherWords \cup LargeWords

\* The inputs of n words that read operand operand operator operand
\* operator ... as far as they go.
RECURSIVE Calculations(_)
Calculations(n) ==
  IF n = 0 THEN {<<>>}
  ELSE { Append(s, w) :
           s \in Calculations(n - 1),
           w \in (IF n = 1 \/ n % 2 = 0 THEN OperandWords ELSE OperatorWords) }

\* Up to two words of any kind.
Rest ==
  {<<>>} \cup { <<w>> : w \in Words } \cup { <<w, v>> : w \in Words, v \in Words }

\* Operands of the calculations of one operator: zero and its spellings,
\* small numbers of either sign, and numbers at the ends of long.
ShortOperands ==
  { <<"0">>, <<"-", "0">>, <<"0", "0">>, <<"2">>, <<"7">>, <<"-", "7">>,
    <<"-", "1">>,
    <<"3", "0", "0", "0", "0", "0", "0", "0", "0", "0">>,
    format_long(LONG_MAX), format_long(ZNeg(LONG_MAX)), format_long(LONG_MIN) }

\* The calculations of one operator.
ShortCalculations ==
  { <<a, b, o>> : a \in ShortOperands, b \in ShortOperands, o \in OperatorWords }

\* Standard input holds a calculation that goes on with up to two words of
\* any kind, or a calculation of one operator.
InitCalc ==
  /\ map = MAP
  /\ p = InitialPose
  /\ pc = "render"
  /\ key = "none"
  /\ keys = 0
  /\ q = NoQuery
  /\ start = p
  /\ ray = NoRay
  /\ \/ \E n \in 0..MaxInput : \E s \in Calculations(n) : \E r \in Rest :
          /\ n + Len(r) <= MaxInput
          /\ calc = StartCalc(s \o r)
     \/ \E s \in ShortCalculations : calc = StartCalc(s)

NextCalc ==
  \/ Operand1
  \/ Operand2
  \/ Operator
  \/ Result
  \/ Return

SpecCalc == InitCalc /\ [][NextCalc]_vars

\* ------------------------------------------------------------------------
\* rpn-calculator_v17: calculations and unexpected tokens
\* ------------------------------------------------------------------------

\* main() is over: it returned or the process was killed.
Ended == calc.state \in {"returned", "killed"}

\* Kind of token i of the input; the token after the last word is the end
\* of the calculation.
KindAt(i) ==
  IF i > Len(calc.stdin) THEN "Eoc"
  ELSE LET w == calc.stdin[i] IN
    IF \A j \in 1..Len(w) : is_digit(w[j]) THEN "Operand"
    ELSE IF Len(w) > 1 /\ w[1] = "-" /\ \A j \in 2..Len(w) : is_digit(w[j])
         THEN "Operand"
    ELSE IF w \in { <<"+">>, <<"-">>, <<"*">>, <<"/">>, <<"%">> } THEN "Operator"
    ELSE "Invalid"

\* Token i is what the grammar operand operand operator (operand operator)*
\* end-of-calculation has in place i.
Fits(i) ==
  IF i <= 2 THEN KindAt(i) = "Operand"
  ELSE IF i % 2 = 1 THEN KindAt(i) = "Operator"
  ELSE KindAt(i) \in {"Operand", "Eoc"}

\* The input is a1 a2 op1 a3 op2 ... an op(n-1) and then ends, n >= 2.
IsCalculation ==
  /\ Len(calc.stdin) >= 3
  /\ Len(calc.stdin) % 2 = 1
  /\ \A i \in 1..Len(calc.stdin) : Fits(i) /\ KindAt(i) # "Eoc"

\* The integer that an operand word denotes.
RECURSIVE NumberOf(_)
NumberOf(digits) ==
  IF digits = <<>> THEN <<>>
  ELSE Append(NumberOf(SubSeq(digits, 1, Len(digits) - 1)),
              CHOOSE d \in 0..9 : DIGITS[d + 1] = digits[Len(digits)])

IntegerOf(w) ==
  IF w[1] = "-" THEN Z(TRUE, NumberOf(Tail(w))) ELSE Z(FALSE, NumberOf(w))

\* The fold of the first i words of a calculation, i odd, in the integers:
\* not defined from a division by zero on.
RECURSIVE FoldUpTo(_)
FoldUpTo(i) ==
  IF i = 1 THEN [defined |-> TRUE, value |-> IntegerOf(calc.stdin[1])]
  ELSE LET acc == FoldUpTo(i - 2)
           a   == IntegerOf(calc.stdin[i - 1])
           op  == calc.stdin[i][1]
       IN IF ~acc.defined \/ (op \in {"/", "%"} /\ a = ZZero)
          THEN [defined |-> FALSE, value |-> ZZero]
          ELSE [defined |-> TRUE,
                value   |-> IF op = "+" THEN ZAdd(acc.value, a)
                            ELSE IF op = "-" THEN ZSub(acc.value, a)
                            ELSE IF op = "*" THEN ZMul(acc.value, a)
                            ELSE IF op = "/" THEN ZDiv(acc.value, a)
                            ELSE ZRem(acc.value, a)]

Fold == FoldUpTo(Len(calc.stdin))

\* C19: for an input a1 a2 op1 a3 op2 ... an op(n-1), n >= 2, the program
\* prints exactly one line, the fold (((a1 op1 a2) op2 a3) ... op(n-1) an),
\* and no error line, and returns.
C19_PrintsFold ==
  (Ended /\ IsCalculation) =>
    /\ calc.state = "returned"
    /\ Fold.defined
    /\ calc.cout = << format_long(Fold.value) >>
    /\ calc.cerr = <<>>

\* The input deviates from the grammar: some token is not what the grammar
\* has in its place.
Deviates == \E i \in 1..(Len(calc.stdin) + 1) : ~Fits(i)

\* Place of the first unexpected token.
FirstUnexpected ==
  CHOOSE i \in 1..(Len(calc.stdin) + 1) :
    ~Fits(i) /\ \A j \in 1..(i - 1) : Fits(j)

\* The line that names what was expected in place i and the kind of token i.
UnexpectedLine(i) ==
  << "Error: ", "expected ",
     IF i = 1 THEN "operand 1" ELSE IF i % 2 = 0 THEN "operand 2" ELSE "operator",
     ", got ",
     IF KindAt(i) = "Operand" THEN "operand"
     ELSE IF KindAt(i) = "Operator" THEN "operator"
     ELSE IF KindAt(i) = "Eoc" THEN "end-of-calculation"
     ELSE "invalid token" >>

\* C20 as stated: on an input that deviates from the grammar the program
\* prints exactly the line of the first unexpected token, no result, and
\* returns without reading a token after it.
C20_FirstUnexpectedReported ==
  (Ended /\ Deviates) =>
    /\ calc.state = "returned"
    /\ calc.cout = << UnexpectedLine(FirstUnexpected) >>
    /\ calc.reads = FirstUnexpected

\* The lines of a calculation_error that is not about an unexpected token.
CalculationErrorLines ==
  { <<"Error: ", "division by zero">> }
    \cup { <<"Error: ", "failed to parse input '">> \o calc.stdin[i]
             \o <<"': parse type value overflow">> : i \in 1..Len(calc.stdin) }

\* C20 as the code has it: on an input that deviates from the grammar the
\* program either reads up to the first unexpected token, prints exactly its
\* line, no result, and returns without reading a token after it; or it
\* ended before that token was read, with the one line of a division by
\* zero or of an operand that is no long, or killed by a signal with no
\* line at all.
C20_UnexpectedOrEndedBefore ==
  (Ended /\ Deviates) =>
    \/ /\ calc.reads = FirstUnexpected
       /\ calc.state = "returned"
       /\ calc.cout = << UnexpectedLine(FirstUnexpected) >>
       /\ calc.cerr = <<>>
    \/ /\ calc.reads < FirstUnexpected
       /\ calc.cerr = <<>>
       /\ \/ calc.state = "killed" /\ calc.cout = <<>>
          \/ /\ calc.state = "returned"
             /\ Len(calc.cout) = 1
             /\ calc.cout[1] \in CalculationErrorLines

\* An operator was unexpected after a calculation had been made, and a word
\* is left unread after it.
C20_UnexpectedAfterCalculation ==
  /\ calc.state = "returned"
  /\ Deviates
  /\ calc.got_operator
  /\ calc.reads = FirstUnexpected
  /\ KindAt(FirstUnexpected) = "Operator"
  /\ FirstUnexpected < Len(calc.stdin)

\* ------------------------------------------------------------------------
\* rpn-calculator_v17: division by zero
\* ------------------------------------------------------------------------

\* The pass that is about to run reads '/' or '%' with two operands in
\* memory, the upper of them (rhs) zero.
DividesByZero ==
  /\ Turn("Operator")
  /\ read_token(next_word(calc)).kind = "Operator"
  /\ read_token(next_word(calc)).op \in {"/", "%"}
  /\ size(calc.m) = 2
  /\ top(calc.m) = ZZero

DivisionByZeroLine == <<"Error: ", "division by zero">>

\* C21: with rhs == 0 and op '/' or '%', calculate() only throws the
\* calculation_error "division by zero", whatever lhs is; the pass of main()
\* that made the call prints the line "Error: division by zero" and nothing
\* else, pushes no result and sets stop; a stopped main() reads and prints
\* nothing more, it returns.
C21_DivisionByZeroStops ==
  [][ /\ DividesByZero =>
           /\ calculate(top(pop(calc.m)), top(calc.m),
                        read_token(next_word(calc)).op)
                = {Throw("calculation_error", <<"division by zero">>)}
           /\ calc'.cout = Append(calc.cout, DivisionByZeroLine)
           /\ calc'.cerr = calc.cerr
           /\ size(calc'.m) = 0
           /\ calc'.stop /\ calc'.state = "run"
      /\ (calc.state = "run" /\ calc.stop) =>
           /\ calc'.state = "returned"
           /\ calc'.cout = calc.cout /\ calc'.cerr = calc.cerr
           /\ calc'.reads = calc.reads ]_vars

\* The lowest long was divided by the operand -0 and main() returned.
C21_Witness ==
  /\ calc.state = "returned"
  /\ calc.stdin = <<format_long(LONG_MIN), <<"-", "0">>, <<"%">>>>
  /\ calc.reads = 3
  /\ calc.cout = <<DivisionByZeroLine>>

\* ------------------------------------------------------------------------
\* rpn-calculator_v17: results outside long
\* ------------------------------------------------------------------------

\* Every operand of the input is a long.
OperandsAreLongs ==
  \A i \in 1..Len(calc.stdin) :
    KindAt(i) = "Operand" => in_long(IntegerOf(calc.stdin[i]))

\* The result or an intermediate result of the calculation, taken in the
\* integers, is no long.
LeavesLong ==
  \E i \in 3..Len(calc.stdin) :
    i % 2 = 1 /\ FoldUpTo(i).defined /\ ~in_long(FoldUpTo(i).value)

IntegerOverflowLine == <<"Error: ", "integer overflow">>

\* C22: a calculation of long operands without a division by zero, whose
\* result or some intermediate result is outside long, prints either the
\* result taken in the integers or the line "Error: integer overflow", and
\* nothing else.
C22_ExactOrOverflowError ==
  (Ended /\ IsCalculation /\ OperandsAreLongs /\ Fold.defined /\ LeavesLong) =>
    /\ calc.state = "returned"
    /\ \/ calc.cout = << format_long(Fold.value) >>
       \/ calc.cout = << IntegerOverflowLine >>
    /\ calc.cerr = <<>>

\* ------------------------------------------------------------------------
\* rpn-calculator_v17: calculate() on its own
\* ------------------------------------------------------------------------

\* Arguments of calculate<long>: the values of the operands above, and the
\* operators together with characters that are none.
LongValues == { IntegerOf(w) : w \in ShortOperands }

OperatorChars == Range(OPERATORS) \cup {"^", "@", "$"}

InitCalculate ==
  /\ map = MAP
  /\ p = InitialPose
  /\ pc = "render"
  /\ key = "none"
  /\ keys = 0
  /\ q = NoQuery
  /\ start = p
  /\ ray = NoRay
  /\ \E lhs \in LongValues : \E rhs \in LongValues : \E op \in OperatorChars :
       calc = [state |-> "calculate", lhs |-> lhs, rhs |-> rhs, op |-> op]

\* The call calculate(lhs, rhs, op) and what comes of it.
Calculate ==
  /\ calc.state = "calculate"
  /\ \E o \in calculate(calc.lhs, calc.rhs, calc.op) :
       calc' = [state |-> "calculated", lhs |-> calc.lhs, rhs |-> calc.rhs,
                op |-> calc.op, outcome |-> o]
  /\ UNCHANGED <<map, p, pc, key, keys, q, ray, start>>

NextCalculate == Calculate

SpecCalculate == InitCalculate /\ [][NextCalculate]_vars

\* |a| < |b|
SmallerMagnitude(a, b) == MagCmp(a.mag, b.mag) < 0

\* v is what op makes of lhs and rhs in the integers: the sum, the
\* difference, the product, the quotient truncated toward zero (what is left
\* of lhs is smaller than rhs in magnitude and has the sign of lhs), or the
\* remainder of that quotient (smaller than rhs in magnitude, zero or of the
\* sign of lhs, and lhs less v a multiple of rhs).
IsResult(v, lhs, rhs, op) ==
  IF op = "+" THEN v = ZAdd(lhs, rhs)
  ELSE IF op = "-" THEN v = ZSub(lhs, rhs)
  ELSE IF op = "*" THEN v = ZMul(lhs, rhs)
  ELSE IF op = "/" THEN
    LET left == ZSub(lhs, ZMul(v, rhs)) IN
      SmallerMagnitude(left, rhs) /\ (left = ZZero \/ left.neg = lhs.neg)
  ELSE
    /\ SmallerMagnitude(v, rhs)
    /\ v = ZZero \/ v.neg = lhs.neg
    /\ \E quot \in {ZDiv(ZSub(lhs, v), rhs)} : ZMul(quot, rhs) = ZSub(lhs, v)

\* The result of op on lhs and rhs in the integers.
ResultOf(lhs, rhs, op) ==
  IF op = "+" THEN ZAdd(lhs, rhs)
  ELSE IF op = "-" THEN ZSub(lhs, rhs)
  ELSE IF op = "*" THEN ZMul(lhs, rhs)
  ELSE IF op = "/" THEN ZDiv(lhs, rhs)
  ELSE ZRem(lhs, rhs)

\* C23: calculate(lhs, rhs, op) throws std::invalid_argument for an op that
\* is none of + - * / %; for one of them, with rhs # 0 and the result a
\* long, it returns the sum, the difference, the product, the quotient
\* truncated toward zero or the remainder with the sign of lhs.
C23_CalculateReturnsResult ==
  calc.state = "calculated" =>
    IF calc.op \notin Range(OPERATORS)
    THEN calc.outcome = Throw("invalid_argument", <<"unsupported operator">>)
    ELSE (calc.rhs # ZZero /\ in_long(ResultOf(calc.lhs, calc.rhs, calc.op))) =>
           /\ calc.outcome.outcome = "ok"
           /\ IsResult(calc.outcome.value, calc.lhs, calc.rhs, calc.op)

\* ------------------------------------------------------------------------
\* rpn-calculator_v17: read_token() on a stream of characters
\* ------------------------------------------------------------------------

\* Characters that operator>> skips and that end a word.
WHITESPACE == {" ", NL}

\* A stream: its characters, how many of them were extracted, and its
\* eofbit and failbit.
Source(chars) == [chars |-> chars, pos |-> 0, eof |-> FALSE, fail |-> FALSE]

\* good() and eof() of a stream.
good(source) == ~source.eof /\ ~source.fail

\* Place of the first character from place i on that is no whitespace (is
\* whitespace, for word = TRUE); Len + 1 when there is none.
RECURSIVE scan(_, _, _)
scan(chars, i, word) ==
  IF i > Len(chars) \/ ((chars[i] \in WHITESPACE) = word) THEN i
  ELSE scan(chars, i + 1, word)

\* source >> input that loses a word which ends at the end of the stream.
extract_to_whitespace(source) ==
  IF ~good(source) THEN [input |-> <<>>, source |-> [source EXCEPT !.fail = TRUE]]
  ELSE LET from == scan(source.chars, source.pos + 1, FALSE)
           to   == scan(source.chars, from, TRUE)
       IN IF to > Len(source.chars)
          THEN [input  |-> <<>>,
                source |-> [source EXCEPT !.pos = Len(source.chars),
                                          !.eof = TRUE, !.fail = TRUE]]
          ELSE [input  |-> SubSeq(source.chars, from, to - 1),
                source |-> [source EXCEPT !.pos = to - 1]]

\* source >> input into an empty string: a stream that is not good fails;
\* else whitespace is skipped, and the end of the stream met there sets
\* eofbit and failbit; else the characters up to the next whitespace are
\* extracted, and the end of the stream met there sets eofbit.
extract(source) ==
  IF ~good(source) THEN [input |-> <<>>, source |-> [source EXCEPT !.fail = TRUE]]
  ELSE LET from == scan(source.chars, source.pos + 1, FALSE)
           to   == scan(source.chars, from, TRUE)
       IN IF from > Len(source.chars)
          THEN [input  |-> <<>>,
                source |-> [source EXCEPT !.pos = Len(source.chars),
                                          !.eof = TRUE, !.fail = TRUE]]
          ELSE [input  |-> SubSeq(source.chars, from, to - 1),
                source |-> [source EXCEPT !.pos = to - 1,
                                          !.eof = to > Len(source.chars)]]

\* Length of the stream.
MaxStream == 4

\* Characters of the stream: a digit, the sign that is an operator as
\* well, an operator, a character that is neither, and whitespace.
StreamChars == {"7", "-", "+", "x", " ", NL}

RECURSIVE Streams(_)
Streams(n) ==
  IF n = 0 THEN {<<>>}
  ELSE Streams(n - 1)
         \cup { Append(s, c) : s \in { t \in Streams(n - 1) : Len(t) = n - 1 },
                               c \in StreamChars }

\* tokens are the tokens that the calls of read_token(source) returned so
\* far; thrown tells that a call threw std::runtime_error.
InitToken ==
  /\ map = MAP
  /\ p = InitialPose
  /\ pc = "render"
  /\ key = "none"
  /\ keys = 0
  /\ q = NoQuery
  /\ start = p
  /\ ray = NoRay
  /\ \E chars \in Streams(MaxStream) :
       calc = [state |-> "tokens", source |-> Source(chars),
               tokens |-> <<>>, thrown |-> FALSE]

\* One call of read_token(source); calls go on until Eoc was returned twice.
ReadToken ==
  /\ calc.state = "tokens"
  /\ ~calc.thrown
  /\ IF Len(calc.tokens) < 2 THEN TRUE
     ELSE calc.tokens[Len(calc.tokens) - 1] # Eoc
  /\ LET e == extract(calc.source) IN
       calc' = IF ~good(e.source) /\ ~e.source.eof
               THEN [calc EXCEPT !.source = e.source, !.thrown = TRUE]
               ELSE [calc EXCEPT !.source = e.source,
                                 !.tokens = Append(@, read_token(e.input))]
  /\ UNCHANGED <<map, p, pc, key, keys, q, ray, start>>

NextToken == ReadToken

SpecToken == InitToken /\ [][NextToken]_vars

\* The whitespace-separated words of a sequence of characters.
RECURSIVE WordsOf(_)
WordsOf(chars) ==
  IF chars = <<>> THEN <<>>
  ELSE IF Head(chars) \in WHITESPACE THEN WordsOf(Tail(chars))
  ELSE LET n == CHOOSE k \in 1..Len(chars) :
                  /\ \A j \in 1..k : chars[j] \notin WHITESPACE
                  /\ k = Len(chars) \/ chars[k + 1] \in WHITESPACE
       IN <<SubSeq(chars, 1, n)>> \o WordsOf(SubSeq(chars, n + 1, Len(chars)))

\* word is one or more digits.
IsDigits(word) == word # <<>> /\ \A i \in 1..Len(word) : word[i] \in Range(DIGITS)

\* The token of a word: an operand for digits with or without '-' in
\* front, an operator for one of the characters + - * / %, else invalid.
TokenOf(word) ==
  IF IsDigits(word) \/ (word[1] = "-" /\ IsDigits(Tail(word)))
  THEN [kind |-> "Operand", value |-> word, op |-> ""]
  ELSE IF word \in { <<"+">>, <<"-">>, <<"*">>, <<"/">>, <<"%">> }
  THEN [kind |-> "Operator", value |-> <<>>, op |-> word[1]]
  ELSE [kind |-> "Invalid", value |-> <<>>, op |-> ""]

\* C24: no call of read_token() throws; the i-th call returns the token of
\* the i-th whitespace-separated word of the stream (an operand with the
\* word unchanged, an operator with its character, or invalid), also when
\* that word ends at the end of the stream, and returns Eoc only when the
\* stream has no i-th word.
C24_TokenOfEachWord ==
  calc.state = "tokens" =>
    /\ ~calc.thrown
    /\ \A i \in 1..Len(calc.tokens) :
         IF i <= Len(WordsOf(calc.source.chars))
         THEN /\ calc.tokens[i] = TokenOf(WordsOf(calc.source.chars)[i])
              /\ calc.tokens[i].kind # "Eoc"
         ELSE calc.tokens[i].kind = "Eoc"

\* The stream "7 -7" was read to its end: the operand -7 that ends at the
\* end of the stream was returned, and Eoc by the calls after it.
C24_Witness ==
  /\ calc.state = "tokens"
  /\ calc.source.chars = <<"7", " ", "-", "7">>
  /\ calc.tokens = << Operand(<<"7">>), Operand(<<"-", "7">>), Eoc, Eoc >>

\* ------------------------------------------------------------------------
\* rpn-calculator_v17: Tokens::Operand::parse<T>() on its own
\* ------------------------------------------------------------------------

\* Number of digits behind the point of an operand text.
MaxFraction == 2

\* The digits before the point of the texts that have a fractional part:
\* small numbers and the numbers at the ends of int.
ParseWholes ==
  { <<"0">>, <<"-", "0">>, <<"7">>, <<"-", "7">>,
    <<"1", "2", "3">>, <<"-", "1", "2", "3">>,
    format_long(INT_MAX), format_long(ZAdd(INT_MAX, Z(FALSE, <<1>>))),
    format_long(INT_MIN), format_long(ZSub(INT_MIN, Z(FALSE, <<1>>))) }

\* Up to n digits behind a point.
RECURSIVE Fractions(_)
Fractions(n) ==
  IF n = 0 THEN {<<".">>}
  ELSE Fractions(n - 1)
         \cup { Append(f, d) : f \in { g \in Fractions(n - 1) : Len(g) = n },
                               d \in {"0", "4", "5"} }

\* Operand texts: the numbers above with and without digits behind a point,
\* the numbers at the ends of long, a text that is no number, and no text.
ParseTexts ==
  { w \o f : w \in ParseWholes,
             f \in {<<>>} \cup { g \in Fractions(MaxFraction) : Len(g) > 1 } }
    \cup OperandWords \cup LargeWords
    \cup { format_long(LONG_MAX), format_long(ZSub(LONG_MIN, Z(FALSE, <<1>>))),
           format_long(ZMul(LONG_MAX_AS_DOUBLE, Z(FALSE, <<1, 0>>))),
           <<"a", "b", "c">>, <<>> }

InitParse ==
  /\ map = MAP
  /\ p = InitialPose
  /\ pc = "render"
  /\ key = "none"
  /\ keys = 0
  /\ q = NoQuery
  /\ start = p
  /\ ray = NoRay
  /\ \E T \in {"int", "long"} : \E value \in ParseTexts :
       calc = [state |-> "parse", T |-> T, value |-> value]

\* The call Tokens::Operand{value}.parse<T>() and what comes of it.
Parse ==
  /\ calc.state = "parse"
  /\ \E o \in parse_as(calc.T, calc.value) :
       calc' = [state |-> "parsed", T |-> calc.T, value |-> calc.value,
                outcome |-> o]
  /\ UNCHANGED <<map, p, pc, key, keys, q, ray, start>>

NextParse == Parse

SpecParse == InitParse /\ [][NextParse]_vars

\* The text is a number: digits, with an optional '-' in front and an
\* optional point and digits behind.
IsNumber(text) ==
  LET body == IF text # <<>> /\ text[1] = "-" THEN Tail(text) ELSE text IN
    /\ body # <<>>
    /\ body[1] # "."
    /\ \A i \in 1..Len(body) : body[i] \in Range(DIGITS) \cup {"."}
    /\ Cardinality({ i \in 1..Len(body) : body[i] = "." }) <= 1

\* The number has a fractional part that is not zero.
HasFraction(text) ==
  \E i, j \in 1..Len(text) :
    i < j /\ text[i] = "." /\ text[j] \in Range(DIGITS) \ {"0"}

\* The number truncated toward zero.
WholeOf(text) ==
  IntegerOf(SubSeq(text, 1, (CHOOSE i \in 1..(Len(text) + 1) :
                               /\ i = Len(text) + 1 \/ text[i] = "."
                               /\ \A j \in 1..(i - 1) : text[j] # ".") - 1))

\* C25: parse<T>() for T int or long throws std::logic_error for every
\* operand text that is a number with a fractional part other than zero,
\* positive or negative, and so returns no truncated integer for it.
C25_FractionThrowsLogicError ==
  (calc.state = "parsed" /\ IsNumber(calc.value) /\ HasFraction(calc.value)) =>
    calc.outcome.outcome = "logic_error"

\* The number is larger than max or smaller than lowest.
OutOfRange(text, max, lowest) ==
  \/ ZLess(max, WholeOf(text))
  \/ ZLess(WholeOf(text), lowest)
  \/ WholeOf(text) = max /\ text[1] # "-" /\ HasFraction(text)
  \/ WholeOf(text) = lowest /\ text[1] = "-" /\ HasFraction(text)

\* C26: parse<T>() for T int or long throws calculation_error for every
\* operand text that is a number larger than numeric_limits<T>::max() or
\* smaller than numeric_limits<T>::lowest(), and returns a value only for a
\* number that T represents, which is then that number.
C26_OutOfRangeThrows ==
  (calc.state = "parsed" /\ IsNumber(calc.value)) =>
    LET max    == IF calc.T = "int" THEN INT_MAX ELSE LONG_MAX
        lowest == IF calc.T = "int" THEN INT_MIN ELSE LONG_MIN
    IN /\ OutOfRange(calc.value, max, lowest) =>
            calc.outcome.outcome = "calculation_error"
       /\ calc.outcome.outcome = "ok" =>
            /\ ~OutOfRange(calc.value, max, lowest)
            /\ ~HasFraction(calc.value)
            /\ calc.outcome.value = WholeOf(calc.value)

\* ------------------------------------------------------------------------
\* rpn-calculator_v09: main()
\* ------------------------------------------------------------------------

\* calc holds the variables of main() (s, m), the words on standard input
\* with the number of read_token() calls made so far, whether whitespace
\* follows the last word, the lines written to std::cout and std::cerr, and
\* whether main() is running, has returned, or was killed by a signal.
v09_Start(stdin, newline) ==
  [state |-> "v09", s |-> "Operand1", m |-> <<>>,
   stdin |-> stdin, newline |-> newline, reads |-> 0,
   cout |-> <<>>, cerr |-> <<>>]

\* read_token() of v09: an empty optional (the token Eoc here) as soon as
\* std::cin.eof() holds, which it does after the extraction of a last word
\* that no whitespace follows; else the token of the word, as in v17.
v09_read_token(c) ==
  IF c.reads >= Len(c.stdin) THEN Eoc
  ELSE IF c.reads + 1 = Len(c.stdin) /\ ~c.newline THEN Eoc
  ELSE read_token(c.stdin[c.reads + 1])

\* Token::parse(): std::from_chars into a long reports an error for a value
\* that is no long.
v09_parse(value) ==
  IF value = <<>>
  THEN Throw("logic_error", <<"trying to call parse on an empty value">>)
  ELSE IF from_chars_error(value) \/ ~in_long(from_chars(value))
  THEN Throw("calculation_error",
             <<"failed to parse input '">> \o value \o <<"'">>)
  ELSE Value(from_chars(value))

\* calculate() of v09: the set of its possible outcomes. It does not test
\* rhs; the division by zero is undefined and ends the process.
v09_calculate(lhs, rhs, op) ==
  IF op \in {"/", "%"} /\ rhs = ZZero THEN {Killed}
  ELSE calculate(lhs, rhs, op)

\* catch (const calculation_error& e) with reset(); any other exception
\* reaches the handler around the loop, and a signal ends the process.
v09_caught(c, o) ==
  IF o.outcome = "calculation_error"
  THEN [c EXCEPT !.cout = Append(@, <<"Error: ">> \o o.what),
                 !.s = "Operand1", !.m = <<>>]
  ELSE IF o.outcome = "killed" THEN [c EXCEPT !.state = "killed"]
  ELSE [c EXCEPT !.cerr = Append(@, <<"Caught exception: ">> \o o.what),
                 !.state = "returned"]

\* One pass of while (true) in state s with a token read.
v09_Turn(s) ==
  /\ calc.state = "v09"
  /\ calc.s = s
  /\ v09_read_token(calc) # Eoc

\* case States::Operand1
v09_Operand1 ==
  /\ v09_Turn("Operand1")
  /\ LET t == v09_read_token(calc)
         c == [calc EXCEPT !.reads = @ + 1]
         o == IF t.kind = "Operand" THEN v09_parse(t.value)
              ELSE unexpected("operand 1", t)
     IN calc' = IF o.outcome = "ok"
                THEN [c EXCEPT !.m = Append(@, o.value), !.s = "Operand2"]
                ELSE v09_caught(c, o)
  /\ UNCHANGED <<map, p, pc, key, keys, q, ray, start>>

\* case States::Operand2
v09_Operand2 ==
  /\ v09_Turn("Operand2")
  /\ LET t == v09_read_token(calc)
         c == [calc EXCEPT !.reads = @ + 1]
         o == IF t.kind = "Operand" THEN v09_parse(t.value)
              ELSE unexpected("operand 2", t)
     IN calc' = IF o.outcome = "ok"
                THEN [c EXCEPT !.m = Append(@, o.value), !.s = "Operator"]
                ELSE v09_caught(c, o)
  /\ UNCHANGED <<map, p, pc, key, keys, q, ray, start>>

\* case States::Operator
v09_Operator ==
  /\ v09_Turn("Operator")
  /\ LET t == v09_read_token(calc)
         c == [calc EXCEPT !.reads = @ + 1]
     IN \E o \in (IF t.kind # "Operator" THEN {unexpected("operator", t)}
                  ELSE IF Len(calc.m) # 2
                  THEN {Throw("logic_error", <<"expected two elements in memory">>)}
                  ELSE v09_calculate(calc.m[1], calc.m[2], t.op)) :
          calc' = IF o.outcome = "ok"
                  THEN [c EXCEPT !.m = <<>>,
                                 !.cout = Append(@, format_long(o.value)),
                                 !.s = "Operand1"]
                  ELSE IF t.kind = "Operator" /\ Len(calc.m) = 2
                  THEN v09_caught([c EXCEPT !.m = <<>>], o)
                  ELSE v09_caught(c, o)
  /\ UNCHANGED <<map, p, pc, key, keys, q, ray, start>>

\* if (!t) break: main() returns.
v09_Break ==
  /\ calc.state = "v09"
  /\ v09_read_token(calc) = Eoc
  /\ calc' = [calc EXCEPT !.state = "returned",
                          !.reads = IF @ < Len(calc.stdin) THEN @ + 1 ELSE @]
  /\ UNCHANGED <<map, p, pc, key, keys, q, ray, start>>

\* Number of words on the standard input of v09.
MaxTokens == 4

\* Words on the standard input of v09: operands, among them one that is no
\* long, operators, and a word that is neither.
v09_Words ==
  { <<"0">>, <<"-", "7">>, format_long(LONG_MAX_AS_DOUBLE),
    <<"+">>, <<"/">>, <<"-", "x">> }

RECURSIVE v09_Inputs(_)
v09_Inputs(n) ==
  IF n = 0 THEN {<<>>}
  ELSE v09_Inputs(n - 1)
         \cup { Append(s, w) : s \in { t \in v09_Inputs(n - 1) : Len(t) = n - 1 },
                               w \in v09_Words }

v09_Init ==
  /\ map = MAP
  /\ p = InitialPose
  /\ pc = "render"
  /\ key = "none"
  /\ keys = 0
  /\ q = NoQuery
  /\ start = p
  /\ ray = NoRay
  /\ \E stdin \in v09_Inputs(MaxTokens) : \E newline \in BOOLEAN :
       calc = v09_Start(stdin, newline)

v09_Next ==
  \/ v09_Operand1
  \/ v09_Operand2
  \/ v09_Operator
  \/ v09_Break

v09_Spec == v09_Init /\ [][v09_Next]_vars

\* The pass that is about to run raises a calculation_error: the token is
\* not of the kind that state s expects, or it is an operand that is no
\* long.
v09_RaisesCalculationError ==
  /\ calc.state = "v09"
  /\ LET t == v09_read_token(calc) IN
       /\ t # Eoc
       /\ \/ calc.s \in {"Operand1", "Operand2"} /\ t.kind # "Operand"
          \/ calc.s = "Operator" /\ t.kind # "Operator"
          \/ /\ calc.s \in {"Operand1", "Operand2"} /\ t.kind = "Operand"
             /\ ~in_long(IntegerOf(t.value))

\* The words of standard input that read_token() returns as tokens.
v09_Readable == IF calc.newline \/ calc.stdin = <<>> THEN Len(calc.stdin)
                ELSE Len(calc.stdin) - 1

\* C27: a pass of v09 that raises a calculation_error prints one line that
\* begins with "Error: ", leaves state Operand1 and an empty memory, and
\* main() goes on with the next token; main() is over only when every token
\* of standard input was read, or after an exception that is no
\* calculation_error, which the handler around the loop reports on
\* std::cerr.
C27_ResetsAndStopsOnlyAtEnd ==
  /\ [][ v09_RaisesCalculationError =>
           /\ Len(calc'.cout) = Len(calc.cout) + 1
           /\ calc'.cout[Len(calc'.cout)][1] = "Error: "
           /\ SubSeq(calc'.cout, 1, Len(calc.cout)) = calc.cout
           /\ calc'.cerr = calc.cerr
           /\ calc'.s = "Operand1" /\ calc'.m = <<>>
           /\ calc'.state = "v09" /\ calc'.reads = calc.reads + 1 ]_vars
  /\ [](calc.state \in {"returned", "killed"} =>
          \/ calc.reads >= v09_Readable
          \/ calc.cerr # <<>>)

\* ------------------------------------------------------------------------
\* Stack<Type, 2> on its own
\* ------------------------------------------------------------------------

\* Number of calls of push and pop on one stack.
MaxCalls == 5

\* The elements that are pushed.
Elements == { ZZero, Z(FALSE, <<1>>), Z(TRUE, <<1>>) }

\* m is the stack; live holds the elements whose push returned true and that
\* no pop has returned yet, oldest first; last is the last call with its
\* argument and what it returned.
InitStack ==
  /\ map = MAP
  /\ p = InitialPose
  /\ pc = "render"
  /\ key = "none"
  /\ keys = 0
  /\ q = NoQuery
  /\ start = p
  /\ ray = NoRay
  /\ \E d1 \in Elements : \E d2 \in Elements :
       calc = [state |-> "stack", m |-> Stack2(d1, d2), live |-> <<>>,
               calls |-> 0,
               last |-> [call |-> "none", element |-> ZZero,
                         pushed |-> FALSE,
                         popped |-> pop_result(Stack2(d1, d2))]]

\* m.push(element)
Push ==
  /\ calc.state = "stack"
  /\ calc.calls < MaxCalls
  /\ \E element \in Elements :
       calc' = [calc EXCEPT
                  !.m = push(@, element),
                  !.live = IF push_result(calc.m) THEN Append(@, element) ELSE @,
                  !.calls = @ + 1,
                  !.last = [call |-> "push", element |-> element,
                            pushed |-> push_result(calc.m),
                            popped |-> calc.last.popped]]
  /\ UNCHANGED <<map, p, pc, key, keys, q, ray, start>>

\* m.pop()
Pop ==
  /\ calc.state = "stack"
  /\ calc.calls < MaxCalls
  /\ calc' = [calc EXCEPT
                !.m = pop(@),
                !.live = IF pop_result(calc.m).has_value
                         THEN SubSeq(@, 1, Len(@) - 1) ELSE @,
                !.calls = @ + 1,
                !.last = [call |-> "pop", element |-> ZZero,
                          pushed |-> calc.last.pushed,
                          popped |-> pop_result(calc.m)]]
  /\ UNCHANGED <<map, p, pc, key, keys, q, ray, start>>

NextStack ==
  \/ Push
  \/ Pop

SpecStack == InitStack /\ [][NextStack]_vars

\* The elements of the stack, oldest first.
Contents(m) == SubSeq(m.data_, 1, size(m))

\* C28: after any calls of push and pop, size() is 0, 1 or 2. A push on a
\* stack of size 2 returns false and leaves contents and size as they are;
\* any other push returns true, and size grows by one with the element on
\* top. A pop on an empty stack returns an empty optional and leaves the
\* stack as it is; any other pop returns the element pushed last among
\* those not yet popped, and size shrinks by one, the elements below
\* staying.
C28_StackOfTwo ==
  [][ calc.state = "stack" =>
        /\ size(calc'.m) \in 0..2
        /\ calc'.last.call = "push" =>
             IF size(calc.m) = 2
             THEN /\ calc'.last.pushed = FALSE
                  /\ Contents(calc'.m) = Contents(calc.m)
                  /\ size(calc'.m) = size(calc.m)
             ELSE /\ calc'.last.pushed = TRUE
                  /\ size(calc'.m) = size(calc.m) + 1
                  /\ Contents(calc'.m)
                       = Append(Contents(calc.m), calc'.last.element)
        /\ calc'.last.call = "pop" =>
             IF size(calc.m) = 0
             THEN /\ calc'.last.popped.has_value = FALSE
                  /\ calc'.m = calc.m
             ELSE /\ calc'.last.popped.has_value = TRUE
                  /\ calc'.last.popped.value = calc.live[Len(calc.live)]
                  /\ size(calc'.m) = size(calc.m) - 1
                  /\ Contents(calc'.m)
                       = SubSeq(Contents(calc.m), 1, size(calc.m) - 1)
        /\ Contents(calc'.m) = calc'.live ]_vars

\* Two elements were pushed, a third push was refused, and a pop, a push and
\* a pop later the stack returned the element pushed last.
C28_Witness ==
  /\ calc.state = "stack"
  /\ calc.calls = 5
  /\ calc.last.call = "pop"
  /\ calc.last.pushed = TRUE
  /\ calc.last.popped = [has_value |-> TRUE, value |-> Z(TRUE, <<1>>)]
  /\ calc.live = << Z(FALSE, <<1>>) >>
  /\ calc.m.data_ = << Z(FALSE, <<1>>), Z(TRUE, <<1>>) >>

\* ------------------------------------------------------------------------
\* The steps of the ray march
\* ------------------------------------------------------------------------

\* The float nearest to k / 10.
TenthsOf(k) == FDiv(IntToF(k), IntToF(10))

\* C29 as stated: a ray that took k steps has the distance k * 0.1 and
\* sampled the cell round(origin + direction * k * 0.1).
C29_DistanceIsStepMultiple ==
  (ray.state \in {"march", "done"} /\ ray.steps > 0) =>
    /\ ray.dist = TenthsOf(ray.steps)
    /\ ray.xx = ray_cell(ray.px, ray.nx, TenthsOf(ray.steps))
    /\ ray.yy = ray_cell(ray.py, ray.ny, TenthsOf(ray.steps))

\* dist, a float below 16, differs from k / 10 by 2^-15 at most.
NearTenths(dist, k) ==
  IF dist.m = 0 THEN k = 0
  ELSE /\ dist.e <= 0 - 15
       /\ Abs(10 * dist.m - k * Pow2(0 - dist.e)) <= 10 * Pow2(0 - dist.e - 15)

\* C29, amended: the distance of a ray after k steps is the sum of k float
\* additions of 0.1f, which is k * 0.1 to within 2^-15; step k samples the
\* cell round(origin + direction * that sum) and is taken only while no
\* sample before it was a wall or out of bounds; hit tells whether the last
\* sample is a wall or out of bounds. So the distance of a hit is that of
\* the first such sample, k >= 1, and no sample is taken at distance 0.
C29_FirstHitOfSummedSteps ==
  /\ [][ (ray.state = "march" /\ ray'.steps # ray.steps) =>
           /\ ~ray.hit
           /\ ray'.steps = ray.steps + 1
           /\ ray'.dist = FAdd(ray.dist, TENTH)
           /\ ray'.xx = ray_cell(ray.px, ray.nx, ray'.dist)
           /\ ray'.yy = ray_cell(ray.py, ray.ny, ray'.dist) ]_vars
  /\ [](ray.state \in {"march", "done"} =>
          /\ NearTenths(ray.dist, ray.steps)
          /\ ray.steps = 0 => ~ray.hit
          /\ ray.steps > 0 =>
               /\ FLt(FZero, ray.dist)
               /\ ray.hit = (is_wall(map, ray.xx, ray.yy)
                               \/ is_oob(map, ray.xx, ray.yy)))

\* A ray hit with its tenth step, in a cell that is not the cell
\* round(origin + direction * 1.0).
C29_Witness ==
  /\ RayDone /\ ray.hit
  /\ ray.steps = 10
  /\ ray.dist # TenthsOf(10)
  /\ ray.xx # ray_cell(ray.px, ray.nx, TenthsOf(10))

\* C30: the loop of a ray makes 150 cell tests at most, goes on only after
\* fewer than 150, and leaves a distance below MAX_DEPTH + 0.1f.
C30_AtMost150CellTests ==
  ray.state \in {"march", "done"} =>
    /\ ray.steps <= 150
    /\ (~ray.hit /\ FLt(ray.dist, MAX_DEPTH)) => ray.steps < 150
    /\ FLt(ray.dist, FAdd(MAX_DEPTH, TENTH))

\* A ray that met nothing: its loop ended after 150 cell tests, past
\* MAX_DEPTH.
C30_Witness ==
  /\ RayDone /\ ~ray.hit
  /\ ray.steps = 150
  /\ FLt(MAX_DEPTH, ray.dist)

\* ------------------------------------------------------------------------
\* The distance that the column is drawn from
\* ------------------------------------------------------------------------

\* C31: when the march of a ray is over, its loop has run once at least and
\* dist_wall, which dist_ceiling divides by and distance_to_wall_shade is
\* called with, is a number not below the step 0.1f; so it is not zero.
C31_DistanceAtLeastStep ==
  RayDone =>
    /\ ray.steps >= 1
    /\ ~IsNaN(ray.dist)
    /\ ~FLt(ray.dist, TENTH)
    /\ ray.dist.m > 0

\* A ray that hit the wall next to the player, with its fifth sample.
C31_Witness == RayDone /\ ray.hit /\ ray.steps = 5 /\ FLt(ray.dist, IntToF(1))

\* ------------------------------------------------------------------------
\* The frame loop, column by column
\* ------------------------------------------------------------------------

\* Number of columns of the screen (s.width).
ScreenWidth == 3

\* No frame begun yet: the number of frames begun, the pose the mini-map
\* marker was printed from, the poses the columns drawn so far were cast from.
NoFrame == [state |-> "frame", frame |-> 0, marker |-> InitialPose, from |-> << >>]

InitFrame ==
  /\ \E sc \in Scenes : map = sc[1] /\ p = sc[2]
  /\ pc = "render"
  /\ key = "none"
  /\ keys = 0
  /\ q = NoQuery
  /\ start = p
  /\ calc = NoCalc
  /\ ray = NoFrame

\* The top of the loop body: the mini-map and the marker of the player.
FrameBegin ==
  /\ pc = "render"
  /\ pc' = "columns"
  /\ ray' = [ray EXCEPT !.frame = @ + 1, !.marker = p, !.from = << >>]
  /\ UNCHANGED <<map, p, key, keys, q, start, calc>>

\* The for loop leaving before the last column, as no build does.
FrameEnd_early ==
  /\ pc = "columns"
  /\ pc' = "input"
  /\ UNCHANGED <<map, p, key, keys, q, ray, start, calc>>

\* The for loop is left at x = s.width; frame rate and s.update() follow.
FrameEnd ==
  /\ pc = "columns"
  /\ Len(ray.from) = ScreenWidth
  /\ pc' = "input"
  /\ UNCHANGED <<map, p, key, keys, q, ray, start, calc>>

\* One pass of the for loop: column x is cast from, and drawn for, p.
FrameColumn ==
  /\ pc = "columns"
  /\ Len(ray.from) < ScreenWidth
  /\ ray' = [ray EXCEPT !.from = Append(@, p)]
  /\ UNCHANGED <<map, p, pc, key, keys, q, start, calc>>

NextFrame ==
  \/ FrameBegin
  \/ FrameColumn
  \/ FrameEnd
  \/ KeyUp
  \/ KeyDown
  \/ KeyLeft
  \/ KeyRight
  \/ KeyOther
  \/ KeyQuit

SpecFrame == InitFrame /\ [][NextFrame]_vars

\* The frame that is on the screen was drawn from the pose cur in full.
FrameOf(cur) ==
  /\ ray.marker = cur
  /\ ray.from = [x \in 1..ScreenWidth |-> cur]

\* C32: the loop alternates frames and commands. A command is read only when
\* one frame more than commands has been drawn in full, from the pose that
\* all the commands read so far have led to; a frame is begun only when as
\* many frames as commands are there; a step that reads a command reads one,
\* and a step that draws leaves the pose and the number of commands alone.
C32_FramesAndCommandsAlternate ==
  /\ [](pc = "input" => ray.frame = keys + 1 /\ FrameOf(p))
  /\ [](pc = "columns" =>
          /\ ray.frame = keys + 1
          /\ ray.marker = p
          /\ \A x \in 1..Len(ray.from) : ray.from[x] = p)
  /\ [](pc \in {"render", "done"} => ray.frame = keys)
  /\ [][(pc = "render" \/ pc = "columns") => (p' = p /\ keys' = keys)]_vars
  /\ [][keys' # keys =>
          (/\ pc = "input"
           /\ keys' = keys + 1
           /\ pc' \in {"render", "done"}
           /\ ray' = ray)]_vars
  /\ [][ray'.frame # ray.frame =>
          (/\ pc = "render"
           /\ ray'.frame = ray.frame + 1)]_vars

\* The third frame is on the screen in full, after a step forward that moved
\* the player and a turn.
C32_Witness ==
  /\ pc = "input"
  /\ keys = 2
  /\ ray.frame = 3
  /\ Len(ray.from) = ScreenWidth
  /\ key = "Left"
  /\ p.x # start.x
  /\ p.angle # start.angle

\* ------------------------------------------------------------------------
\* Rectangles of every shape
\* ------------------------------------------------------------------------

\* The layout is h >= 3 rows of w >= 3 cells each, every row ended by a
\* newline.
RectangleOfThree(s) ==
  /\ s # <<>>
  /\ s[Len(s)] = NL
  /\ Len(Rows(s)) >= 3
  /\ FirstRowLen(s) >= 3
  /\ Rectangular(s)

\* C33: the constructor makes a LevelMap of every rectangle of at least
\* 3 x 3 cells, with the length of a row as width and the number of rows as
\* height, whether the rectangle is wider than tall or taller than wide.
C33_EveryRectangleAccepted ==
  (map.outcome # "none" /\ RectangleOfThree(map.format)) =>
    /\ map.outcome = "ok"
    /\ map.width = FirstRowLen(map.format)
    /\ map.height = Len(Rows(map.format))

\* ------------------------------------------------------------------------
\* The marker of the player on the mini-map
\* ------------------------------------------------------------------------

\* s.print(static_cast<unsigned int>(p.x), static_cast<unsigned int>(p.y),
\* ...): the column and the row of the screen, and so of the mini-map printed
\* at (0, 0), that the marker is put in.  (The coordinates are above -1 in
\* every state of the frame loop, where the conversion is defined.)
marker_cell(pl) == <<FTrunc(pl.x), FTrunc(pl.y)>>

\* The cell that the collision test of the input switch looks up for pl.
collision_cell(pl) == <<FRound(pl.x), FRound(pl.y)>>

\* The marker of the frame being drawn is where the collision test has the
\* player.
MarkerOnCollisionCell == marker_cell(ray.marker) = collision_cell(ray.marker)

\* The marker of the frame being drawn has replaced a '#' of the mini-map.
MarkerOverWall ==
  is_wall(map, marker_cell(ray.marker)[1], marker_cell(ray.marker)[2])

\* C34: once the mini-map and the marker of a frame are printed, the marker
\* is in the cell that collision detection takes for the cell of the player,
\* and is not printed over a wall character.
C34_MarkerOnPlayerCell ==
  pc = "columns" => (MarkerOnCollisionCell /\ ~MarkerOverWall)

\* ------------------------------------------------------------------------
\* raycasting_v08: collision detection without std::round
\* ------------------------------------------------------------------------

\* MAP.is_wall(static_cast<int>(p.x), static_cast<int>(p.y)) of version 08.
v08_in_wall(M, pl) == is_wall(M, FTrunc(pl.x), FTrunc(pl.y))

\* case Up and case Down of the input switch of version 08; Player and
\* LevelMap are those of version 13.
v08_key_up(M, pl) ==
  LET t == move_up(pl) IN IF v08_in_wall(M, t) THEN move_down(t) ELSE t

v08_key_down(M, pl) ==
  LET t == move_down(pl) IN IF v08_in_wall(M, t) THEN move_up(t) ELSE t

\* The pose after the key 'w' has been read 92 times from the initial pose:
\* x = 7, y = 10.2000027, heading 0.
v08_PoseWalked == Pose(IntToF(7), [m |-> 10695478, e |-> 0 - 20], FZero)

v08_Init ==
  /\ map = MAP
  /\ p \in {InitialPose, v08_PoseWalked}
  /\ pc = "render"
  /\ key = "none"
  /\ keys = 0
  /\ q = NoQuery
  /\ start = p
  /\ calc = NoCalc
  /\ ray = NoRay

v08_KeyUp   == Read("Up", MaxKeys)   /\ p' = v08_key_up(map, p)   /\ pc' = "render"

v08_KeyDown == Read("Down", MaxKeys) /\ p' = v08_key_down(map, p) /\ pc' = "render"

v08_Next ==
  \/ Render
  \/ v08_KeyUp
  \/ v08_KeyDown
  \/ KeyLeft
  \/ KeyRight
  \/ KeyOther
  \/ KeyQuit

v08_Spec == v08_Init /\ [][v08_Next]_vars

\* The cell that the ray march takes for the position it starts from:
\* (round(x), round(y)).
v08_ray_origin(pl) == <<FRound(pl.x), FRound(pl.y)>>

\* C35: in version 08 the cell that the rays of a frame are cast from,
\* (round(x), round(y)), is never a wall cell of the built-in map, whatever
\* commands have been read since the initial pose.
C35_RaysNeverFromWall ==
  ~is_wall(map, v08_ray_origin(p)[1], v08_ray_origin(p)[2])

\* ------------------------------------------------------------------------
\* The wall shade of the distances that the march ends with
\* ------------------------------------------------------------------------

\* The index that distance_to_wall_shade(d) reads WALL_SHADES at, for
\* d < MAX_DEPTH: WALL_SHADES.size() - 1 - level; negative where the
\* std::size_t wraps around.
shade_index(d) == NUMBER_OF_WALL_SHADES - 1 - shade_level(d)

\* C36: the distance that a march ends with is 0.1f at least and MAX_DEPTH
\* plus one step at most; for it the index into WALL_SHADES is one of
\* 0..15, WALL_SHADES.at does not throw, and the colour pair of the column is
\* WALL_COLOR_X when the distance is not below MAX_DEPTH and one of 11..26
\* when it is.
C36_ShadeIndexInRange ==
  (ray.state \in {"rows", "failed"}) =>
    /\ ~FLt(ray.dist, TENTH)
    /\ ~FLt(FAdd(MAX_DEPTH, TENTH), ray.dist)
    /\ ray.state = "rows"
    /\ IF FLt(ray.dist, MAX_DEPTH)
       THEN /\ shade_index(ray.dist) \in 0..(NUMBER_OF_WALL_SHADES - 1)
            /\ ray.shade = WALL_SHADES[shade_index(ray.dist) + 1]
            /\ ray.shade \in 11..26
       ELSE ray.shade = WALL_COLOR_X

\* A column whose march ended with its first step: index 0, the brightest
\* pair.
C36_Witness ==
  /\ ray.state = "rows"
  /\ ray.dist = TENTH
  /\ shade_index(ray.dist) = 0
  /\ ray.shade = 11

\* ------------------------------------------------------------------------
\* rpn-calculator_v17: the size of the memory in each state
\* ------------------------------------------------------------------------

\* m.size() as the state s has it on entry of its handler.
SizeIn(s) ==
  IF s = "Operand1" THEN 0
  ELSE IF s = "Operator" THEN 2
  ELSE 1

\* The lines that the two guards of main() end in.
GuardLines ==
  { <<"Caught exception: ", "expected two elements in memory">>,
    <<"Caught exception: ", "expected only a single result in memory">> }

\* C37 as stated: the size of the memory is the one of the state, after any
\* sequence of tokens.
C37_SizeByState ==
  calc.state \in {"run", "returned"} => size(calc.m) = SizeIn(calc.s)

\* This step is a pass of the loop that pushed an operand.
PushedOperand ==
  /\ calc.s \in {"Operand1", "Operand2"}
  /\ calc'.s \in {"Operand2", "Operator"}
  /\ calc'.s # calc.s

\* This step is a pass of the loop in state Operator that read an operator.
ReadOperator ==
  /\ calc.state = "run"
  /\ ~calc.stop
  /\ calc.s = "Operator"
  /\ calc'.reads # calc.reads
  /\ read_token(next_word(calc)).kind = "Operator"

\* This step is a pass of the loop in state Result.
PrintedResult ==
  /\ calc.state = "run"
  /\ ~calc.stop
  /\ calc.s = "Result"
  /\ calc'.reads # calc.reads

\* C37: whenever the loop of main() is about to read a token, the size of
\* the memory is 0 in Operand1, 1 in Operand2, 2 in Operator and 1 in Result;
\* neither guard throws its std::logic_error; every push finds room and every
\* pop finds an element.
C37_SizeByStateOnEntry ==
  /\ []((calc.state = "run" /\ ~calc.stop) => size(calc.m) = SizeIn(calc.s))
  /\ [](\A i \in 1..Len(calc.cerr) : calc.cerr[i] \notin GuardLines)
  /\ [][PushedOperand =>
          (/\ push_result(calc.m)
           /\ size(calc'.m) = size(calc.m) + 1)]_vars
  /\ [][ReadOperator =>
          (/\ pop_result(calc.m).has_value
           /\ pop_result(pop(calc.m)).has_value
           /\ push_result(pop(pop(calc.m)))
           /\ size(calc'.m) = (IF calc'.s = "Operand2" THEN 1 ELSE 0))]_vars
  /\ [][PrintedResult =>
          (/\ pop_result(calc.m).has_value
           /\ size(calc'.m) = 0
           /\ calc'.cout = Append(calc.cout, format_long(top(calc.m))))]_vars

\* An operator has been read and evaluated, and the loop goes on in Operand2
\* with the result in the memory.
C37_Witness ==
  /\ calc.state = "run"
  /\ ~calc.stop
  /\ calc.s = "Operand2"
  /\ calc.got_operator
  /\ size(calc.m) = 1

\* ------------------------------------------------------------------------
\* rpn-calculator_v18: read_token(), parse<float>(), calculate<float>(),
\* main() on a stream of characters
\* ------------------------------------------------------------------------

\* read_token() of version 18 on std::cin: the token returned (or the
\* std::runtime_error thrown) and the stream after the call.  Version 14
\* tests std::cin.eof() after std::cin >> input in the same way.
v18_read_token(source) ==
  LET e == extract(source) IN
    IF ~good(e.source) /\ ~e.source.eof
    THEN [thrown |-> TRUE, token |-> Eoc, source |-> e.source]
    ELSE [thrown |-> FALSE,
          token  |-> IF e.source.eof THEN Eoc
                     ELSE IF Len(e.input) = 1 /\ e.input[1] \in Range(OPERATORS)
                     THEN Operator_token(e.input[1])
                     ELSE Operand(e.input),
          source |-> e.source]

\* The number that a sequence of digits spells.
RECURSIVE DigitsValue(_)
DigitsValue(word) ==
  IF word = <<>> THEN 0
  ELSE 10 * DigitsValue(SubSeq(word, 1, Len(word) - 1))
         + (CHOOSE d \in 0..9 : DIGITS[d + 1] = word[Len(word)])

\* Tokens::Operand::parse<float>() for a value made of digits, of the
\* characters of OPERATORS and of 'x', that spells no number of 2^24 or
\* more: std::from_chars takes digits with or without '-' in front, and the
\* float of the number is exact.
v18_parse(value) ==
  IF value = <<>>
  THEN Throw("logic_error", <<"trying to call parse on an empty value">>)
  ELSE IF IsDigits(value)
  THEN Value(IntToF(DigitsValue(value)))
  ELSE IF value[1] = "-" /\ IsDigits(Tail(value))
  THEN Value(FNeg(IntToF(DigitsValue(Tail(value)))))
  ELSE Throw("calculation_error",
             <<"failed to parse input '">> \o value \o <<"'">>)

\* calculate<float>(lhs, rhs, op): the body of case '%' is discarded for a
\* floating-point T, and the case falls through to default.
v18_calculate(lhs, rhs, op) ==
  IF op = "+" THEN Value(FAdd(lhs, rhs))
  ELSE IF op = "-" THEN Value(FSub(lhs, rhs))
  ELSE IF op = "*" THEN Value(FMul(lhs, rhs))
  ELSE IF op = "/"
  THEN IF rhs.m = 0 THEN Throw("calculation_error", <<"division by zero">>)
       ELSE Value(FDiv(lhs, rhs))
  ELSE Throw("invalid_argument", <<"unsupported operator">>)

\* The variables of main() of version 18 before the loop, with chars on
\* standard input; result holds the floats written to std::cout, cout the
\* other lines.
v18_Start(chars) ==
  [state |-> "run", s |-> "Operand1", m |-> Stack2(FZero, FZero),
   got_operator |-> FALSE, stop |-> FALSE, source |-> Source(chars),
   cout |-> <<>>, result |-> <<>>, cerr |-> <<>>]

\* std::visit of the state and the token t.
v18_visit(c, t) ==
  IF c.s = "Operand1" \/ (c.s = "Operand2" /\ ~(t.kind = "Eoc" /\ c.got_operator))
  THEN LET o == IF t.kind = "Operand" THEN v18_parse(t.value)
                ELSE unexpected(IF c.s = "Operand1" THEN "operand 1"
                                ELSE "operand 2", t)
       IN IF o.outcome = "ok"
          THEN [c EXCEPT !.m = push(@, o.value),
                         !.s = IF c.s = "Operand1" THEN "Operand2" ELSE "Operator"]
          ELSE caught(c, o)
  ELSE IF c.s = "Operand2" THEN [c EXCEPT !.s = "Result"]
  ELSE IF c.s = "Operator"
  THEN IF t.kind # "Operator" THEN caught(c, unexpected("operator", t))
       ELSE IF size(c.m) # 2
       THEN caught(c, Throw("logic_error", <<"expected two elements in memory">>))
       ELSE LET o == v18_calculate(top(pop(c.m)), top(c.m), t.op)
            IN IF o.outcome = "ok"
               THEN [c EXCEPT !.m = push(pop(pop(@)), o.value),
                              !.got_operator = TRUE,
                              !.s = "Operand2"]
               ELSE caught([c EXCEPT !.m = pop(pop(@))], o)
  ELSE IF size(c.m) # 1
  THEN caught(c, Throw("logic_error",
                       <<"expected only a single result in memory">>))
  ELSE [c EXCEPT !.result = Append(@, top(c.m)), !.m = pop(@), !.stop = TRUE]

\* One pass of while (!stop): read_token(), then the visit.
v18_pass(c) ==
  LET r == v18_read_token(c.source)
      d == [c EXCEPT !.source = r.source]
  IN IF r.thrown
     THEN caught(d, Throw("runtime_error",
                          <<"failed to read standard input stream">>))
     ELSE v18_visit(d, r.token)

\* main() is over: the loop has stopped or an exception has left it.
v18_done(c) == c.stop \/ c.state # "run"

\* Largest number of words on standard input.
MaxWords == 5

\* Operand words; the words at place n of a calculation.
FloatOperands == { <<"0">>, <<"2">>, <<"7">> }

RECURSIVE FloatCalculations(_)
FloatCalculations(n) ==
  IF n = 0 THEN {<<>>}
  ELSE { Append(s, w) :
           s \in FloatCalculations(n - 1),
           w \in (IF n = 1 \/ n % 2 = 0 THEN FloatOperands ELSE OperatorWords) }

\* The words with one space between them.
RECURSIVE Joined(_)
Joined(words) ==
  IF words = <<>> THEN <<>>
  ELSE IF Len(words) = 1 THEN words[1]
  ELSE words[1] \o <<" ">> \o Joined(Tail(words))

\* Standard input holds a calculation, with or without a word that is no
\* number behind it, with or without a newline at its end.
v18_Init ==
  /\ map = MAP
  /\ p = InitialPose
  /\ pc = "render"
  /\ key = "none"
  /\ keys = 0
  /\ q = NoQuery
  /\ start = p
  /\ ray = NoRay
  /\ \E n \in 0..MaxWords : \E s \in FloatCalculations(n) :
     \E x \in {<<>>, << <<"x">> >>} : \E nl \in {<<>>, <<NL>>} :
       calc = v18_Start(Joined(s \o x) \o nl)

v18_Pass ==
  /\ calc.state = "run"
  /\ ~calc.stop
  /\ calc' = v18_pass(calc)
  /\ UNCHANGED <<map, p, pc, key, keys, q, ray, start>>

v18_Next == v18_Pass

v18_Spec == v18_Init /\ [][v18_Next]_vars

\* main() run to its end from c.
RECURSIVE v18_run(_)
v18_run(c) == IF v18_done(c) THEN c ELSE v18_run(v18_pass(c))

\* What a run has written.
Written(c) == <<c.cout, c.result, c.cerr>>

\* C38: version 18 takes the last word of the input like any other word
\* also when the input ends with it: at the end of main() there is written
\* what is written for the same input with a newline behind it.
C38_LastWordWithoutNewline ==
  (calc.state # "none" /\ v18_done(calc)) =>
    Written(calc) = Written(v18_run(v18_Start(calc.source.chars \o <<NL>>)))

\* ------------------------------------------------------------------------
\* rpn-calculator_v18: the operators on a memory of floats
\* ------------------------------------------------------------------------

\* The words on standard input are a calculation that ends with an operator
\* and a newline, and no operand 0 is the right-hand side of '/' or '%'.
WellFormedCalculation(chars) ==
  LET w == WordsOf(chars) IN
    /\ chars # <<>>
    /\ chars[Len(chars)] = NL
    /\ Len(w) >= 3
    /\ Len(w) % 2 = 1
    /\ \A i \in 1..Len(w) :
         IF i = 1 \/ i % 2 = 0 THEN w[i] \in FloatOperands
         ELSE /\ w[i] \in OperatorWords
              /\ (w[i] \in {<<"/">>, <<"%">>} => w[i - 1] # <<"0">>)

\* C40: main() of version 18 ends a well-formed calculation whose divisors
\* are not zero by writing one result and nothing else: no operator raises
\* the std::invalid_argument of an unsupported operator.
C40_EveryOperatorEvaluated ==
  (calc.state # "none" /\ v18_done(calc)
     /\ WellFormedCalculation(calc.source.chars)) =>
    /\ Len(calc.result) = 1
    /\ calc.cout = <<>>
    /\ calc.cerr = <<>>

\* ------------------------------------------------------------------------
\* stack.hpp: the primary template beside its specialisation
\* ------------------------------------------------------------------------

\* Stack<Type, MaxSize> of the primary template: data_ is the std::deque,
\* empty after construction.
Stack == << >>

\* Stack<Type, MaxSize>::push(element): the value returned, and the deque
\* after the call.
Stack_push_result(data_, MaxSize) == Len(data_) < MaxSize

Stack_push(data_, MaxSize, element) ==
  IF Len(data_) < MaxSize THEN Append(data_, element) ELSE data_

\* pop() that takes the element at the front of the deque.
Stack_pop_front_result(data_) ==
  IF data_ = << >> THEN [has_value |-> FALSE, value |-> ZZero]
  ELSE [has_value |-> TRUE, value |-> data_[1]]

\* Stack<Type, MaxSize>::pop(): the optional returned, and the deque after
\* the call.
Stack_pop_result(data_) ==
  IF data_ = << >> THEN [has_value |-> FALSE, value |-> ZZero]
  ELSE [has_value |-> TRUE, value |-> data_[Len(data_)]]

Stack_pop(data_) ==
  IF data_ = << >> THEN data_ ELSE SubSeq(data_, 1, Len(data_) - 1)

\* Stack<Type, MaxSize>::size()
Stack_size(data_) == Len(data_)

\* One call as its caller sees it: what it returned, and size() after it.
Seen(call, pushed, popped, n) ==
  [call |-> call, pushed |-> pushed, popped |-> popped, size |-> n]

\* A Stack<long, 2> of the specialisation (m) and a stack of the primary
\* template with MaxSize = 2 (data_), both just constructed; seen_m and
\* seen_data_ are what the calls made on each of them have shown so far.
InitStacks ==
  /\ map = MAP
  /\ p = InitialPose
  /\ pc = "render"
  /\ key = "none"
  /\ keys = 0
  /\ q = NoQuery
  /\ start = p
  /\ ray = NoRay
  /\ \E d1 \in Elements : \E d2 \in Elements :
       calc = [state |-> "stacks", m |-> Stack2(d1, d2), data_ |-> Stack,
               seen_m |-> << >>, seen_data_ |-> << >>]

\* push(element) on both stacks.
PushBoth ==
  /\ calc.state = "stacks"
  /\ Len(calc.seen_m) < MaxCalls
  /\ \E element \in Elements :
       calc' = [calc EXCEPT
                  !.m = push(@, element),
                  !.data_ = Stack_push(@, 2, element),
                  !.seen_m =
                    Append(@, Seen("push", push_result(calc.m),
                                   pop_result(Stack2(ZZero, ZZero)),
                                   size(push(calc.m, element)))),
                  !.seen_data_ =
                    Append(@, Seen("push", Stack_push_result(calc.data_, 2),
                                   Stack_pop_result(Stack),
                                   Stack_size(Stack_push(calc.data_, 2, element))))]
  /\ UNCHANGED <<map, p, pc, key, keys, q, ray, start>>

\* pop() on both stacks.
PopBoth ==
  /\ calc.state = "stacks"
  /\ Len(calc.seen_m) < MaxCalls
  /\ calc' = [calc EXCEPT
                !.m = pop(@),
                !.data_ = Stack_pop(@),
                !.seen_m =
                  Append(@, Seen("pop", FALSE, pop_result(calc.m),
                                 size(pop(calc.m)))),
                !.seen_data_ =
                  Append(@, Seen("pop", FALSE, Stack_pop_result(calc.data_),
                                 Stack_size(Stack_pop(calc.data_))))]
  /\ UNCHANGED <<map, p, pc, key, keys, q, ray, start>>

NextStacks ==
  \/ PushBoth
  \/ PopBoth

SpecStacks == InitStacks /\ [][NextStacks]_vars

\* C39: after the same calls of push and pop, the specialisation for two
\* elements and the primary template with MaxSize = 2 have returned the same
\* from every push and from every pop, and size() has been the same after
\* every call.
C39_SameAsPrimaryTemplate ==
  calc.state = "stacks" =>
    /\ calc.seen_m = calc.seen_data_
    /\ size(calc.m) = Stack_size(calc.data_)

\* Two elements that differ were pushed, a third push was refused, and two
\* calls of pop returned the two elements, the later one first.
C39_Witness ==
  /\ calc.state = "stacks"
  /\ Len(calc.seen_m) = 5
  /\ calc.seen_m[1].pushed
  /\ calc.seen_m[2].pushed
  /\ calc.seen_m[3].call = "push"
  /\ ~calc.seen_m[3].pushed
  /\ calc.seen_m[4].popped.has_value
  /\ calc.seen_m[5].popped.has_value
  /\ calc.seen_m[4].popped.value # calc.seen_m[5].popped.value
  /\ calc.seen_m[5].size = 0

====
